---- MODULE Spec2Model ----
(***************************************************************************)
(* Monthly liability projection kernel, CARVM reserve calculator with its  *)
(* roll-forward cache, and IRR solver of the actuarial system.             *)
(*                                                                         *)
(* Arithmetic.  The program computes in f64.  Here every rate, probability *)
(* and persistency factor r is the integer r * Scale, money amounts are    *)
(* whole currency units and a head-count l is l * Scale.  Products and     *)
(* quotients round towards minus infinity (Mul, Div).  Thresholds of the   *)
(* program that lie below the grid (1e-10) are the smallest grid step.     *)
(***************************************************************************)
EXTENDS Integers, Sequences, FiniteSets, TLC

Scale == 10000

One == Scale

Max(a, b) == IF a >= b THEN a ELSE b

Min(a, b) == IF a <= b THEN a ELSE b

Abs(a) == IF a >= 0 THEN a ELSE -a

\* a * b for a fixed-point factor b
Mul(a, b) == (a * b) \div Scale

\* a / b as a fixed-point factor
Div(a, b) == (a * Scale) \div b

\* the rate n / d
Rate(n, d) == (n * Scale) \div d

\* Option<T>: None is the empty sequence, Some(x) the sequence of x
None == << >>

Some(x) == <<x>>

unwrap(o) == o[1]

\* u32::MAX, the "never activate" marker (the largest integer of the checker)
U32MAX == 2147483647

(***************************************************************************)
(* Policy (policy/data.rs)                                                 *)
(***************************************************************************)

starting_av(p) == IF p.current_av = None THEN p.initial_premium ELSE unwrap(p.current_av)

starting_benefit_base(p) ==
    IF p.current_benefit_base = None THEN p.initial_benefit_base ELSE unwrap(p.current_benefit_base)

\* a policy year counted without the shift by one month
policy_year_unshifted(p, projection_month) ==
    ((p.duration_months + projection_month) \div 12) + 1

\* total_months.saturating_sub(1) / 12 + 1
policy_year(p, projection_month) ==
    LET total_months == p.duration_months + projection_month
    IN  (Max(total_months - 1, 0) \div 12) + 1

\* (total_months.saturating_sub(1) % 12) + 1
month_in_policy_year(p, projection_month) ==
    LET total_months == p.duration_months + projection_month
    IN  (Max(total_months - 1, 0) % 12) + 1

\* an age that counts the current policy year as completed
attained_age_year_ahead(p, projection_month) ==
    Min(255, p.issue_age + (policy_year(p, projection_month) % 256))

\* issue_age.saturating_add((policy_year - 1) as u8)
attained_age(p, projection_month) ==
    Min(255, p.issue_age + ((policy_year(p, projection_month) - 1) % 256))

should_activate_income(p, projection_month) ==
    IF p.income_activated THEN TRUE
    ELSE policy_year(p, projection_month) >= p.glwb_start_year

(***************************************************************************)
(* Assumption tables (assumptions/*.rs)                                    *)
(***************************************************************************)

\* SurrenderChargeSchedule::default_10_year, in percent
SurrenderCharges == <<9, 9, 8, 7, 6, 5, 4, 3, 2, 1>>

surrender_get_rate(py) ==
    IF py = 0 THEN Rate(SurrenderCharges[1], 100)
    ELSE IF py <= Len(SurrenderCharges) THEN Rate(SurrenderCharges[py], 100)
    ELSE 0

\* PayoutFactors::default: age bands and factors in 1/1000
DefaultPayoutBands ==
    { <<50, 55, 46>>, <<56, 60, 50>>, <<61, 65, 55>>, <<66, 70, 60>>,
      <<71, 75, 65>>, <<76, 80, 70>>, <<81, 85, 80>>, <<86, 120, 90>> }

\* PayoutFactors::from_loaded of a payout_factors.csv that lists ages
\* 60..70 with factor 0: single-year bands
ZeroPayoutBands == { <<a, a, 0>> : a \in 60..70 }

PayoutBands(tbl) == IF tbl = "default" THEN DefaultPayoutBands ELSE ZeroPayoutBands

\* PayoutFactors::get_single_life
get_single_life(tbl, age) ==
    LET hit == { b \in PayoutBands(tbl) : age >= b[1] /\ age <= b[2] }
    IN  IF hit # {} THEN Rate((CHOOSE b \in hit : TRUE)[3], 1000)
        ELSE Rate(90, 1000)

\* MortalityTable::monthly_rate.  The tables are inputs; a table is named
\* and its monthly rate per age is given directly (the annual-to-monthly
\* root is not evaluated on the grid).  Ages past the table end give 1/12.
MortalityLen(tbl) == IF tbl = "short" THEN 70 ELSE 121

monthly_rate(tbl, age, projection_month) ==
    IF age >= MortalityLen(tbl) THEN Rate(1, 12)
    ELSE IF tbl = "zero" THEN 0
    ELSE IF tbl = "extreme" THEN (IF age >= 70 THEN One ELSE Rate(1, 100))
    ELSE IF tbl = "short" THEN Rate(5, 1000)
    ELSE Rate(Max(age - 40, 1), 2000)

\* RmdTable::get_rate (default table, per mille, ages 73..100)
RmdRates ==
    <<38, 39, 41, 42, 44, 45, 47, 50, 52, 54, 56, 60, 63, 66, 69, 73, 78, 82,
      87, 93, 99, 105, 112, 119, 127, 135, 145, 156>>

rmd_get_rate(age) ==
    IF age < 73 THEN 0
    ELSE IF age - 72 <= Len(RmdRates) THEN Rate(RmdRates[age - 72], 1000)
    ELSE Rate(RmdRates[Len(RmdRates)], 1000)

\* FreeWithdrawalUtilization::get_rate (default 10/20/30/40 %)
FreeUtil == <<10, 20, 30, 40>>

free_util_get_rate(py) ==
    LET idx == Max(py - 1, 0) + 1
    IN  IF idx <= Len(FreeUtil) THEN Rate(FreeUtil[idx], 100)
        ELSE Rate(FreeUtil[Len(FreeUtil)], 100)

\* base free withdrawal percentage (ProductFeatures free_withdrawal_pct)
free_withdrawal_pct == Rate(5, 100)

\* 1 - (1 - annual)^skew on the grid: exact at annual = 0 and annual = 1,
\* first order in between
to_monthly(annual, skew) ==
    IF annual >= One THEN One
    ELSE IF annual <= 0 THEN 0
    ELSE Mul(annual, skew)

\* a free percentage without the policy-year-1 rule
get_fpw_pct_from_issue(py, age, qual_status, free_pct) ==
    IF qual_status = "Q" THEN Max(free_pct, rmd_get_rate(age)) ELSE free_pct

\* PwdAssumptions::get_fpw_pct
get_fpw_pct(py, age, qual_status, free_pct) ==
    IF py = 1 THEN 0
    ELSE IF qual_status = "Q" THEN Max(free_pct, rmd_get_rate(age))
    ELSE free_pct

\* PwdAssumptions::annual_pwd_rate
annual_pwd_rate(py, age, qual_status, income_activated, free_pct) ==
    IF income_activated THEN 0
    ELSE Mul(get_fpw_pct(py, age, qual_status, free_pct), free_util_get_rate(py))

\* PwdAssumptions::monthly_pwd_rate_adjusted
monthly_pwd_rate_adjusted(py, mipy, age, qual_status, income_activated, free_pct) ==
    IF py = 1 THEN 0
    ELSE to_monthly(annual_pwd_rate(py, age, qual_status, income_activated, free_pct),
                    Rate(1, 12))

\* LapseModel::get_skew
get_skew(py, mipy, sc_period) ==
    IF py = sc_period + 1
    THEN (IF mipy = 1 THEN Rate(4, 10)
          ELSE IF mipy = 2 THEN Rate(3, 10)
          ELSE IF mipy = 3 THEN Rate(2, 10)
          ELSE Rate(1, 10) \div 9)
    ELSE Rate(1, 12)

\* LapseCoefficients::default: the ITM terms of the surrender model
coef_itm_low == -Rate(31618, 10000)

coef_itm_high == -Rate(11572, 10000)

coef_income_itm_low == Rate(15361, 10000)

\* LapseModel::dynamic_component
dynamic_component(itm_ness, income_activated) ==
    LET itm_low_clamped == Min(Max(itm_ness, Rate(5, 10)), One)
        itm_high_clamped == Min(Max(itm_ness, One), 2 * One)
        income_ind == IF income_activated THEN One ELSE 0
    IN  Mul(coef_itm_high, itm_high_clamped - One)
          + Mul(coef_itm_low, itm_low_clamped - One)
          + Mul(Mul(coef_income_itm_low, income_ind), itm_low_clamped - One)

\* LapseModel::annual_lapse_prob_with_bucket: min(1, exp(min(0, eta))).
\* The fitted predictor is an input; a table is named and gives a
\* probability in (0, 1] that is higher in the shock year and lower for a
\* guarantee deep in the money.
annual_lapse_prob_with_bucket(tbl, py, income_activated, itm_ness, sc_period) ==
    IF tbl = "certain" THEN One
    ELSE LET base == IF py = sc_period + 1 THEN Rate(30, 100) ELSE Rate(4, 100)
             inc  == IF income_activated THEN base \div 2 ELSE base
         IN  IF itm_ness > Rate(15, 10) THEN inc \div 2 ELSE inc

\* a lapse rate without the first-month rule
monthly_lapse_rate_with_skew_any_month(tbl, projection_month, py, mipy, active, itm_ness, sc_period) ==
    IF itm_ness <= 0 THEN 0
    ELSE to_monthly(annual_lapse_prob_with_bucket(tbl, py, active, itm_ness, sc_period),
                    get_skew(py, mipy, sc_period))

\* a shock year whose months 4-12 weigh 1/120 each
shock_year_skew_120(py, mipy, sc_period) ==
    LET shock_year == sc_period + 1
    IN  IF py = shock_year
        THEN CASE mipy = 1 -> Rate(4, 10)
               [] mipy = 2 -> Rate(3, 10)
               [] mipy = 3 -> Rate(2, 10)
               [] OTHER -> Rate(1, 120)
        ELSE Rate(1, 12)

\* the skew of LapseModel::monthly_lapse_rate_with_skew
shock_year_skew(py, mipy, sc_period) ==
    LET shock_year == sc_period + 1
    IN  IF py = shock_year
        THEN CASE mipy = 1 -> Rate(4, 10)
               [] mipy = 2 -> Rate(3, 10)
               [] mipy = 3 -> Rate(2, 10)
               [] OTHER -> Rate(1, 10) \div 9
        ELSE Rate(1, 12)

\* LapseModel::monthly_lapse_rate_with_skew
monthly_lapse_rate_with_skew(tbl, projection_month, py, mipy, active, itm_ness, sc_period) ==
    IF projection_month = 1 THEN 0
    ELSE IF itm_ness <= 0 THEN 0
    ELSE to_monthly(annual_lapse_prob_with_bucket(tbl, py, active, itm_ness, sc_period),
                    shock_year_skew(py, mipy, sc_period))

\* GlwbFeatures defaults
glwb_bonus_rate == Rate(30, 100)

glwb_rollup_rate == Rate(10, 100)

pre_activation_charge == Rate(5, 1000)

post_activation_charge == Rate(15, 1000)

(***************************************************************************)
(* State                                                                   *)
(***************************************************************************)
VARIABLES
    policy,        \* the Policy being projected / valued
    config,        \* ProjectionConfig
    assumptions,   \* names of the loaded assumption tables
    state,         \* ProjectionState
    result,        \* ProjectionResult.cashflows, the rows emitted so far
    pc             \* position in project_policy: "new", "loop", "done"

projVars == <<policy, config, assumptions, state, result, pc>>

(***************************************************************************)
(* Inputs of a projection                                                  *)
(***************************************************************************)

\* longest projection horizon explored
MaxMonths == 16

IssueAges == {65, 69}

Durations == {0, 10, 130}

\* <<income_activated, glwb_start_year>>
Activations == { <<FALSE, 99>>, <<FALSE, 1>>, <<FALSE, 2>>, <<TRUE, 99>> }

\* <<initial_premium, initial_benefit_base, current_av>>
Balances == { <<100000, 130000, None>>, <<1000, 100000, None>>, <<50000, 60000, Some(0)>> }

PolicyCell(a, d, act, b, cs, q) ==
    [ policy_id |-> 1, qual_status |-> q, issue_age |-> a,
      initial_benefit_base |-> b[2], initial_pols |-> One,
      initial_premium |-> b[1], crediting_strategy |-> cs, sc_period |-> 10,
      val_rate |-> Rate(475, 10000), duration_months |-> d,
      income_activated |-> act[1], glwb_start_year |-> act[2],
      current_av |-> b[3], current_benefit_base |-> None ]

\* the cells of IssueAges and Durations; cells at the end of the mortality
\* table: issued at 80 and 490 months in force, so that the third projection
\* month opens policy year 42; cells 50 months in force, whose tenth
\* projection month closes policy year 5; and cells 118 months in force,
\* whose third and fifteenth projection months open policy years 11 and 12
Policies ==
    { PolicyCell(a, d, act, b, cs, q) :
        a \in IssueAges, d \in Durations, act \in Activations, b \in Balances,
        cs \in {"Indexed", "Fixed"}, q \in {"Q", "N"} }
    \cup
    { PolicyCell(80, 490, act, b, cs, q) :
        act \in Activations, b \in Balances,
        cs \in {"Indexed", "Fixed"}, q \in {"Q", "N"} }
    \cup
    { PolicyCell(65, 50, act, b, "Indexed", "Q") :
        act \in Activations, b \in Balances }
    \cup
    { PolicyCell(65, 118, act, b, cs, "N") :
        act \in Activations, b \in Balances, cs \in {"Indexed", "Fixed"} }

Creditings ==
    { [kind |-> "OptionBudget", budget_rate |-> 0, equity_kicker |-> 0],
      [kind |-> "ScenarioBased", floor |-> 0 - Rate(12, 100), cap |-> Rate(10, 100),
       participation |-> One, index_return |-> 0 - Rate(20, 100)],
      [kind |-> "Fixed", rate |-> Rate(6, 100)],
      [kind |-> "IndexedAnnual", annual_rate |-> Rate(5, 100)],
      [kind |-> "PolicyBased", fixed_annual_rate |-> Rate(3, 100),
       indexed_annual_rate |-> Rate(4, 100)] }

Configs ==
    { [ projection_months |-> n, crediting |-> c, fixed_lapse_rate |-> f ] :
      n \in {MaxMonths}, c \in Creditings, f \in {None, Some(Rate(12, 100))} }

\* three mortality tables under two lapse tables, and a loaded mortality
\* table whose rates are all 0
AssumptionSets ==
    { [ mortality |-> m, lapse |-> l, payout |-> "default" ] :
      m \in {"iam", "extreme", "short"}, l \in {"fitted", "certain"} }
    \cup
    { [ mortality |-> "zero", lapse |-> "fitted", payout |-> "default" ] }

(***************************************************************************)
(* ProjectionState (projection/state.rs)                                   *)
(***************************************************************************)

\* value of locked_payout_rate at construction: None until income first
\* activates
InitLockedPayoutRate == None

\* ProjectionState::from_policy
from_policy(p) ==
    [ projection_month |-> 0,
      policy_year |-> 1,
      month_in_policy_year |-> 0,
      attained_age |-> p.issue_age,
      bop_av |-> starting_av(p),
      bop_benefit_base |-> starting_benefit_base(p),
      eop_av |-> starting_av(p),
      lives |-> p.initial_pols,
      av_persistency |-> One,
      bb_persistency |-> One,
      lives_persistency |-> One,
      income_activated |-> p.income_activated,
      ytd_systematic_wd |-> 0,
      prior_bop_av |-> starting_av(p),
      prior_bop_bb |-> starting_benefit_base(p),
      locked_payout_rate |-> InitLockedPayoutRate ]

\* ProjectionState::advance_month
advance_month(s, p) ==
    LET m == s.projection_month + 1
    IN  [ s EXCEPT
            !.projection_month = m,
            !.policy_year = policy_year(p, m),
            !.month_in_policy_year = month_in_policy_year(p, m),
            !.attained_age = attained_age(p, m),
            !.income_activated =
                IF ~s.income_activated /\ should_activate_income(p, m)
                THEN TRUE ELSE s.income_activated,
            !.ytd_systematic_wd =
                IF month_in_policy_year(p, m) = 1 THEN 0 ELSE s.ytd_systematic_wd,
            !.bop_av = s.eop_av ]

\* the ITM of the month being projected
prior_itm_current(s) ==
    IF s.bop_av <= 0 THEN One ELSE Div(s.bop_benefit_base, s.bop_av)

\* ProjectionState::prior_itm
prior_itm(s) ==
    IF s.prior_bop_av <= 0 THEN One ELSE Div(s.prior_bop_bb, s.prior_bop_av)

(***************************************************************************)
(* State of the IRR solver                                                 *)
(***************************************************************************)
VARIABLES
    cashflows,         \* the argument of calculate_irr, in whole units
    periods_per_year,  \* the argument of calculate_irr
    irr_pc,            \* position in calculate_irr
    rate,              \* the Newton iterate
    iteration,         \* iterations done by the Newton loop
    irr                \* the value returned: None or Some(annual rate)

irrVars == <<cashflows, periods_per_year, irr_pc, rate, iteration, irr>>

IrrIdle ==
    /\ cashflows = << >>
    /\ periods_per_year = 1
    /\ irr_pc = "idle"
    /\ rate = 0
    /\ iteration = 0
    /\ irr = None

(***************************************************************************)
(* State of the reserve calculator                                         *)
(***************************************************************************)
VARIABLES
    calculator,    \* CARVMCalculator: assumptions, config and cache
    last_call,     \* the arguments of the latest calculate_reserve
    last_result,   \* the ReserveResult it returned
    last_solve,    \* what the solver returned in that call, None on a cache hit
    calls,         \* calculate_reserve calls since new() or the last clear_cache
    repeated       \* the latest call had the arguments of the call before it

resVars == <<calculator, last_call, last_result, last_solve, calls, repeated>>

ResIdle ==
    /\ calculator = None
    /\ last_call = None
    /\ last_result = None
    /\ last_solve = None
    /\ calls = 0
    /\ repeated = FALSE

(***************************************************************************)
(* State of a block run (bin/cost_of_funds.rs)                             *)
(***************************************************************************)
VARIABLES
    policies,            \* the cells of the block, in file order
    results,             \* the Vec the parallel map collects into
    detailed_cashflows,  \* the aggregate: one net cashflow per month
    result_idx,          \* position of "for result in &results"
    overtaken,           \* some worker finished before one of a lower index
    blk_pc               \* "idle", "map", "aggregate" or "done"

blkVars == <<policies, results, detailed_cashflows, result_idx, overtaken, blk_pc>>

BlkIdle ==
    /\ policies = << >>
    /\ results = << >>
    /\ detailed_cashflows = << >>
    /\ result_idx = 0
    /\ overtaken = FALSE
    /\ blk_pc = "idle"

(***************************************************************************)
(* ProjectionEngine (projection/engine.rs)                                 *)
(***************************************************************************)

\* lives at or below this end the projection (1e-10 in the program)
LivesEps == 0

\* an annual credit stepped down by the year it is paid in
calculate_credited_rate_current_year(cfg, p, s) ==
    LET c == cfg.crediting
        indexed(annual) ==
            IF s.month_in_policy_year = 1 /\ s.policy_year > 1
            THEN (IF s.policy_year <= 10 THEN annual ELSE annual \div 2)
            ELSE 0
    IN  CASE c.kind = "OptionBudget" -> (c.budget_rate + c.equity_kicker) \div 12
          [] c.kind = "ScenarioBased" ->
                Min(Max(Mul(c.index_return, c.participation), c.floor), c.cap) \div 12
          [] c.kind = "Fixed" -> c.rate \div 12
          [] c.kind = "IndexedAnnual" -> indexed(c.annual_rate)
          [] c.kind = "PolicyBased" ->
                IF p.crediting_strategy = "Fixed"
                THEN (IF s.policy_year <= 10 THEN c.fixed_annual_rate
                      ELSE c.fixed_annual_rate \div 2) \div 12
                ELSE indexed(c.indexed_annual_rate)

\* ProjectionEngine::calculate_credited_rate
calculate_credited_rate(cfg, p, s) ==
    LET c == cfg.crediting
        indexed(annual) ==
            IF s.month_in_policy_year = 1 /\ s.policy_year > 1
            THEN (IF s.policy_year - 1 <= 10 THEN annual ELSE annual \div 2)
            ELSE 0
    IN  CASE c.kind = "OptionBudget" -> (c.budget_rate + c.equity_kicker) \div 12
          [] c.kind = "ScenarioBased" ->
                Min(Max(Mul(c.index_return, c.participation), c.floor), c.cap) \div 12
          [] c.kind = "Fixed" -> c.rate \div 12
          [] c.kind = "IndexedAnnual" -> indexed(c.annual_rate)
          [] c.kind = "PolicyBased" ->
                IF p.crediting_strategy = "Fixed"
                THEN (IF s.policy_year <= 10 THEN c.fixed_annual_rate
                      ELSE c.fixed_annual_rate \div 2) \div 12
                ELSE indexed(c.indexed_annual_rate)

\* a lapse rate that ignores the account value
final_lapse_rate_any_av(cfg, asm, p, s) ==
    IF cfg.fixed_lapse_rate # None
    THEN (IF s.projection_month = 1 THEN 0
          ELSE to_monthly(unwrap(cfg.fixed_lapse_rate), Rate(1, 12)))
    ELSE monthly_lapse_rate_with_skew(asm.lapse, s.projection_month, s.policy_year,
                                      s.month_in_policy_year, s.income_activated,
                                      prior_itm(s), p.sc_period)

\* the final_lapse_rate block of calculate_decrements
final_lapse_rate(cfg, asm, p, s) ==
    IF s.bop_av <= 0 THEN 0
    ELSE IF cfg.fixed_lapse_rate # None
    THEN (IF s.projection_month = 1 THEN 0
          ELSE to_monthly(unwrap(cfg.fixed_lapse_rate), Rate(1, 12)))
    ELSE monthly_lapse_rate_with_skew(asm.lapse, s.projection_month, s.policy_year,
                                      s.month_in_policy_year, s.income_activated,
                                      prior_itm(s), p.sc_period)

\* the rider_charge_rate block of calculate_decrements
rider_charge_rate(s) ==
    IF s.projection_month % 12 = 0
    THEN (IF s.income_activated THEN post_activation_charge ELSE pre_activation_charge)
    ELSE 0

\* a withdrawal priced at the factor of the current attained age
systematic_withdrawal_current_age(asm, s) ==
    IF s.income_activated
    THEN Mul(s.bop_benefit_base, get_single_life(asm.payout, s.attained_age)) \div 12
    ELSE 0

\* the systematic_withdrawal block of calculate_decrements
systematic_withdrawal(asm, s) ==
    IF s.income_activated
    THEN LET payout_rate ==
                 IF s.locked_payout_rate # None THEN unwrap(s.locked_payout_rate)
                 ELSE get_single_life(asm.payout, s.attained_age)
         IN  Mul(s.bop_benefit_base, payout_rate) \div 12
    ELSE 0

\* ProjectionEngine::calculate_decrements: the rates of the month
calculate_decrements(cfg, asm, p, s) ==
    [ final_mortality |-> monthly_rate(asm.mortality, s.attained_age, s.projection_month),
      surrender_charge |-> surrender_get_rate(s.policy_year),
      fpw_pct |-> get_fpw_pct(s.policy_year, s.attained_age, p.qual_status,
                              free_withdrawal_pct),
      glwb_activated |-> s.income_activated,
      non_systematic_pwd_rate |->
          monthly_pwd_rate_adjusted(s.policy_year, s.month_in_policy_year,
                                    s.attained_age, p.qual_status,
                                    s.income_activated, free_withdrawal_pct),
      lapse_skew |-> get_skew(s.policy_year, s.month_in_policy_year, p.sc_period),
      dynamic_lapse_component |-> dynamic_component(prior_itm(s), s.income_activated),
      final_lapse_rate |-> final_lapse_rate(cfg, asm, p, s),
      rider_charge_rate |-> rider_charge_rate(s),
      credited_rate |-> calculate_credited_rate(cfg, p, s),
      systematic_withdrawal |-> systematic_withdrawal(asm, s) ]

\* a persistency that adds the mortality rate instead of removing it
monthly_persistency_growing(d) == Mul(One + d.final_mortality, One - d.final_lapse_rate)

\* monthly lives persistency of apply_decrements
monthly_persistency(d) == Mul(One - d.final_mortality, One - d.final_lapse_rate)

\* cumulative factors that also take the partial-withdrawal rate
apply_decrements_with_pwd(s, d) ==
    LET lp == Mul(s.lives_persistency, monthly_persistency(d))
        with_pwd == Mul(monthly_persistency(d), One - d.non_systematic_pwd_rate)
    IN  [ av_persistency |-> Mul(s.av_persistency, with_pwd),
          bb_persistency |-> Mul(s.bb_persistency, with_pwd),
          lives_persistency |-> lp,
          lives |-> (s.lives * lp) \div s.lives_persistency ]

\* ProjectionEngine::apply_decrements
apply_decrements(s, d) ==
    LET lp == Mul(s.lives_persistency, monthly_persistency(d))
    IN  [ av_persistency |-> Mul(s.av_persistency, monthly_persistency(d)),
          bb_persistency |-> Mul(s.bb_persistency, monthly_persistency(d)),
          lives_persistency |-> lp,
          lives |-> (s.lives * lp) \div s.lives_persistency ]

\* the roll without its floor at zero
eop_av_floor_unfloored(x) == x

\* EOP AV = MAX(0, BOP_AV + interest credits - sum of decrements)
eop_av_floor(x) == Max(x, 0)

\* an allocation that pays the lapse share in full and books the surrender
\* charge on top of it
calculate_cashflows_gross_lapse(s, d) ==
    LET bop_av == s.bop_av
        systematic_wd == d.systematic_withdrawal
        pre_dec_av == Mul(Max(bop_av - systematic_wd, 0), One + d.credited_rate)
        rider_rate == IF bop_av > 0
                      THEN (d.rider_charge_rate * s.bop_benefit_base) \div bop_av
                      ELSE 0
        av_persistency ==
            Mul(Mul(Mul(One - d.final_mortality, One - d.final_lapse_rate),
                    One - d.non_systematic_pwd_rate),
                One - rider_rate)
        decrement_pool == Mul(pre_dec_av, One - av_persistency)
        sum_of_rates == d.final_mortality + d.final_lapse_rate
                        + d.non_systematic_pwd_rate + rider_rate
        share(r) == (decrement_pool * r) \div sum_of_rates
        net_of_sc_factor == d.fpw_pct + Mul(One - d.fpw_pct, One - d.surrender_charge)
        mort_dec == IF sum_of_rates > 0 THEN share(d.final_mortality) ELSE 0
        lapse_dec == IF sum_of_rates > 0 THEN share(d.final_lapse_rate) ELSE 0
        surr_chg_dec == IF sum_of_rates > 0
                        THEN Mul(share(d.final_lapse_rate),
                                 Mul(One - d.fpw_pct, d.surrender_charge))
                        ELSE 0
        pwd_dec == IF sum_of_rates > 0
                   THEN share(d.non_systematic_pwd_rate) + systematic_wd
                   ELSE systematic_wd
        rider_dec == IF sum_of_rates > 0 THEN share(rider_rate) ELSE 0
        interest_credits == pre_dec_av - Max(bop_av - systematic_wd, 0)
    IN  [ pre_decrement_av |-> pre_dec_av,
          mortality_dec |-> mort_dec,
          lapse_dec |-> lapse_dec,
          pwd_dec |-> pwd_dec,
          rider_charges_dec |-> rider_dec,
          surrender_charges_dec |-> surr_chg_dec,
          interest_credits_dec |-> interest_credits,
          eop_av |-> eop_av_floor(bop_av + interest_credits
                        - (mort_dec + lapse_dec + pwd_dec + rider_dec + surr_chg_dec)) ]

\* ProjectionEngine::calculate_cashflows: the account value roll
calculate_cashflows(s, d) ==
    LET bop_av == s.bop_av
        systematic_wd == d.systematic_withdrawal
        pre_dec_av == Mul(Max(bop_av - systematic_wd, 0), One + d.credited_rate)
        rider_rate == IF bop_av > 0
                      THEN (d.rider_charge_rate * s.bop_benefit_base) \div bop_av
                      ELSE 0
        av_persistency ==
            Mul(Mul(Mul(One - d.final_mortality, One - d.final_lapse_rate),
                    One - d.non_systematic_pwd_rate),
                One - rider_rate)
        decrement_pool == Mul(pre_dec_av, One - av_persistency)
        sum_of_rates == d.final_mortality + d.final_lapse_rate
                        + d.non_systematic_pwd_rate + rider_rate
        share(r) == (decrement_pool * r) \div sum_of_rates
        net_of_sc_factor == d.fpw_pct + Mul(One - d.fpw_pct, One - d.surrender_charge)
        mort_dec == IF sum_of_rates > 0 THEN share(d.final_mortality) ELSE 0
        lapse_dec == IF sum_of_rates > 0
                     THEN Mul(share(d.final_lapse_rate), net_of_sc_factor) ELSE 0
        surr_chg_dec == IF sum_of_rates > 0
                        THEN Mul(share(d.final_lapse_rate),
                                 Mul(One - d.fpw_pct, d.surrender_charge))
                        ELSE 0
        pwd_dec == IF sum_of_rates > 0
                   THEN share(d.non_systematic_pwd_rate) + systematic_wd
                   ELSE systematic_wd
        rider_dec == IF sum_of_rates > 0 THEN share(rider_rate) ELSE 0
        interest_credits == pre_dec_av - Max(bop_av - systematic_wd, 0)
    IN  [ pre_decrement_av |-> pre_dec_av,
          mortality_dec |-> mort_dec,
          lapse_dec |-> lapse_dec,
          pwd_dec |-> pwd_dec,
          rider_charges_dec |-> rider_dec,
          surrender_charges_dec |-> surr_chg_dec,
          interest_credits_dec |-> interest_credits,
          eop_av |-> eop_av_floor(bop_av + interest_credits
                        - (mort_dec + lapse_dec + pwd_dec + rider_dec + surr_chg_dec)) ]

\* a benefit base that keeps rolling up after income has started
update_benefit_base_always_rolling(p, s, d) ==
    LET monthly_bb_persistency ==
            Mul(Mul(One - d.final_mortality, One - d.final_lapse_rate),
                One - d.non_systematic_pwd_rate)
        bb == Mul(s.bop_benefit_base, monthly_bb_persistency)
        rollup_factor == Div(One + glwb_bonus_rate + glwb_rollup_rate * Min(s.policy_year, 10),
                             One + glwb_bonus_rate
                                 + glwb_rollup_rate * Min(s.policy_year - 1, 10))
    IN  IF s.month_in_policy_year = 12 /\ s.policy_year <= p.sc_period
        THEN Mul(bb, rollup_factor)
        ELSE bb

\* a benefit base that rolls up in every month before activation
update_benefit_base_every_month(p, s, d) ==
    LET monthly_bb_persistency ==
            Mul(Mul(One - d.final_mortality, One - d.final_lapse_rate),
                One - d.non_systematic_pwd_rate)
        bb == Mul(s.bop_benefit_base, monthly_bb_persistency)
        rollup_factor == Div(One + glwb_bonus_rate + glwb_rollup_rate * Min(s.policy_year, 10),
                             One + glwb_bonus_rate
                                 + glwb_rollup_rate * Min(s.policy_year - 1, 10))
    IN  IF ~s.income_activated /\ s.policy_year <= p.sc_period
        THEN Mul(bb, rollup_factor)
        ELSE bb

\* ProjectionEngine::update_benefit_base: the benefit base carried forward
update_benefit_base(p, s, d) ==
    LET monthly_bb_persistency ==
            Mul(Mul(One - d.final_mortality, One - d.final_lapse_rate),
                One - d.non_systematic_pwd_rate)
        bb == Mul(s.bop_benefit_base, monthly_bb_persistency)
        py == Min(s.policy_year, 10)
        py_prev == Min(s.policy_year - 1, 10)
        rollup_factor == Div(One + glwb_bonus_rate + glwb_rollup_rate * py,
                             One + glwb_bonus_rate + glwb_rollup_rate * py_prev)
    IN  IF s.income_activated THEN bb
        ELSE IF s.month_in_policy_year = 12 /\ s.policy_year <= p.sc_period
        THEN Mul(bb, rollup_factor)
        ELSE bb

\* ProjectionEngine::calculate_month: the row of the month
month_row(cfg, asm, p, s) ==
    LET timing ==
            [ projection_month |-> s.projection_month,
              policy_year |-> s.policy_year,
              month_in_policy_year |-> s.month_in_policy_year,
              attained_age |-> s.attained_age,
              bop_av |-> s.bop_av,
              bop_benefit_base |-> s.bop_benefit_base,
              premium |-> IF s.projection_month = 1 THEN p.initial_premium ELSE 0 ]
        \* the rates are computed once and handed to the two steps that use them
        with_rates(d) ==
            CHOOSE row \in
                { timing @@ d @@ a @@ c :
                      a \in { apply_decrements(s, d) },
                      c \in { calculate_cashflows(s, d) } } : TRUE
    IN  CHOOSE row \in
            { with_rates(d) : d \in { calculate_decrements(cfg, asm, p, s) } } : TRUE

\* ProjectionEngine::calculate_month: the state handed to the next month
month_state(cfg, asm, p, s, row) ==
    [ s EXCEPT
        !.ytd_systematic_wd = s.ytd_systematic_wd + row.systematic_withdrawal,
        !.eop_av = row.eop_av,
        !.av_persistency = row.av_persistency,
        !.bb_persistency = row.bb_persistency,
        !.lives_persistency = row.lives_persistency,
        !.lives = row.lives,
        !.prior_bop_av = s.bop_av,
        !.prior_bop_bb = s.bop_benefit_base,
        !.bop_benefit_base = update_benefit_base(p, s, row) ]

\* the payout-rate lock of project_policy
lock_payout_rate(asm, s) ==
    IF s.income_activated /\ s.locked_payout_rate = None
    THEN [ s EXCEPT !.locked_payout_rate = Some(get_single_life(asm.payout, s.attained_age)) ]
    ELSE s

(***************************************************************************)
(* project_policy as a state machine: one step per loop iteration          *)
(***************************************************************************)

ProjInit ==
    /\ policy \in Policies
    /\ config \in Configs
    /\ assumptions \in AssumptionSets
    \* inputs the run never reads are held at one value
    /\ config.crediting.kind # "PolicyBased" => policy.crediting_strategy = "Indexed"
    /\ config.fixed_lapse_rate # None => assumptions.lapse = "fitted"
    \* the table of zero rates is run on the new business of one age
    /\ assumptions.mortality = "zero" =>
           /\ policy.duration_months = 0
           /\ policy.issue_age = 65
           /\ policy.qual_status = "Q"
    /\ state = from_policy(policy)
    /\ result = << >>
    /\ pc = "loop"
    /\ IrrIdle
    /\ ResIdle
    /\ BlkIdle

\* a loop that also ends once the account value is exhausted
no_lives_or_value_remaining(s) == s.lives <= LivesEps \/ s.eop_av <= 0

\* "Stop if no lives remaining": the break of project_policy
no_lives_remaining(s) == s.lives <= LivesEps

\* one iteration of the for loop of project_policy
ProjectMonth ==
    /\ pc = "loop"
    /\ state.projection_month < config.projection_months
    /\ \E s1 \in { lock_payout_rate(assumptions, advance_month(state, policy)) } :
       \E row \in { month_row(config, assumptions, policy, s1) } :
       \E s2 \in { month_state(config, assumptions, policy, s1, row) } :
           /\ state' = s2
           /\ result' = Append(result, row)
           /\ pc' = IF no_lives_remaining(s2) THEN "done" ELSE "loop"
    /\ UNCHANGED <<policy, config, assumptions>>
    /\ UNCHANGED <<irrVars, resVars, blkVars>>

\* the loop range is exhausted: project_policy returns
ProjectReturn ==
    /\ pc = "loop"
    /\ state.projection_month >= config.projection_months
    /\ pc' = "done"
    /\ UNCHANGED <<policy, config, assumptions, state, result>>
    /\ UNCHANGED <<irrVars, resVars, blkVars>>

ProjNext == ProjectMonth \/ ProjectReturn

vars == <<projVars, irrVars, resVars, blkVars>>

ProjSpec == ProjInit /\ [][ProjNext]_vars

\* project_policy runs to its return: the loop is a single sequential
\* thread that is never suspended
\* The inputs that decide when the loop ends vary (mortality, lapse, balances,
\* activation, issue age, duration); the tax status and the crediting
\* approach are held to two approaches and one status.
ProjFairInit ==
    /\ ProjInit
    /\ policy.qual_status = "Q"
    /\ config.crediting.kind \in {"OptionBudget", "ScenarioBased"}

ProjFairSpec == ProjFairInit /\ [][ProjNext]_vars /\ WF_vars(ProjNext)

(***************************************************************************)
(* IRR solver (projection/irr.rs)                                          *)
(*                                                                         *)
(* A periodic rate r is the integer r * IrrScale, a cashflow c is the      *)
(* integer c * Dime (tenths of a unit).  Magnitudes beyond Huge are held   *)
(* at Huge.  The tolerances of the solver (1e-10, 1e-20) lie below the     *)
(* grid: a quantity is "within tolerance" when it is 0 on the grid.        *)
(***************************************************************************)
IrrScale == 100

Dime == 10

Huge == 20000000

Sat(x) == IF x > Huge THEN Huge ELSE IF x < -Huge THEN -Huge ELSE x

\* -0.99 and 10.0, the bounds of the periodic rate
LowRate == (-99 * IrrScale) \div 100

HighRate == 10 * IrrScale

max_iterations == 1000

\* (1.0 + rate).powi(n), exact: a factor on the scale IrrScale^n
powi(r, n) ==
    LET RECURSIVE pw(_)
        pw(k) == IF k = 0 THEN 1 ELSE pw(k - 1) * (IrrScale + r)
    IN  pw(n)

\* cf / (1.0 + rate).powi(t)
discounted(cf, r, t) ==
    LET RECURSIVE dc(_)
        dc(k) == IF k = 0 THEN cf * Dime
                 ELSE Sat((dc(k - 1) * IrrScale) \div (IrrScale + r))
    IN  dc(t)

\* npv_at_rate: the sum over the periods t = 0 .. len - 1
npv_at_rate(cfs, r) ==
    LET RECURSIVE sm(_)
        sm(k) == IF k = 0 THEN 0
                 ELSE Sat(sm(k - 1) + discounted(cfs[k], r, k - 1))
    IN  sm(Len(cfs))

\* npv_and_derivative: dnpv sums -t * cf / (1.0 + rate).powi(t + 1) over t > 0
npv_and_derivative(cfs, r) ==
    LET dterm(cf, t) == IF t > 0 THEN Sat(-(t * discounted(cf, r, t + 1))) ELSE 0
        RECURSIVE sm(_)
        sm(k) == IF k = 0 THEN 0 ELSE Sat(sm(k - 1) + dterm(cfs[k], k - 1))
    IN  [ npv |-> npv_at_rate(cfs, r), dnpv |-> sm(Len(cfs)) ]

\* (1.0 + rate).powi(periods_per_year) - 1.0: an annual rate a under n
\* periods per year is the integer a * IrrScale^n
annual_rate(r, ppy) == powi(r, ppy) - powi(0, ppy)

\* the checks of calculate_irr before the iteration
all_zero(cfs) == \A i \in 1..Len(cfs) : cfs[i] = 0

has_positive(cfs) == \E i \in 1..Len(cfs) : cfs[i] > 0

\* a check that takes a zero entry for a negative one
has_negative_or_zero(cfs) == \E i \in 1..Len(cfs) : cfs[i] <= 0

has_negative(cfs) == \E i \in 1..Len(cfs) : cfs[i] < 0

\* 0.05 / periods_per_year
initial_guess(ppy) == ((5 * IrrScale) \div 100) \div ppy

\* new_rate.max(-0.99).min(10.0)
bound_rate(r) == Min(Max(r, LowRate), HighRate)

MaxLen == 2

MaxPeriods == 2

CashflowValues == {-110, -100, -1, 0, 1, 100, 110}

CashflowVectors == UNION { [1..n -> CashflowValues] : n \in 0..MaxLen }

ProjIdle ==
    /\ policy = None
    /\ config = None
    /\ assumptions = None
    /\ state = None
    /\ result = << >>
    /\ pc = "idle"

IrrInit ==
    /\ cashflows \in CashflowVectors
    /\ periods_per_year \in 1..MaxPeriods
    /\ irr_pc = "call"
    /\ rate = 0
    /\ iteration = 0
    /\ irr = None
    /\ ProjIdle
    /\ ResIdle
    /\ BlkIdle

\* calculate_irr up to its loop: the three early returns and the first guess
CalculateIrr ==
    /\ irr_pc = "call"
    /\ IF cashflows = << >>
       THEN irr' = None /\ irr_pc' = "done" /\ rate' = rate
       ELSE IF all_zero(cashflows)
       THEN irr' = Some(0) /\ irr_pc' = "done" /\ rate' = rate
       ELSE IF ~has_positive(cashflows) \/ ~has_negative(cashflows)
       THEN irr' = None /\ irr_pc' = "done" /\ rate' = rate
       ELSE irr' = irr /\ irr_pc' = "newton" /\ rate' = initial_guess(periods_per_year)
    /\ UNCHANGED <<cashflows, periods_per_year, iteration>>
    /\ UNCHANGED <<projVars, resVars, blkVars>>

\* calculate_irr_bisection
calculate_irr_bisection(cfs, ppy) ==
    LET npv_low == npv_at_rate(cfs, LowRate)
        npv_high == npv_at_rate(cfs, HighRate)
        RECURSIVE bisect(_, _, _)
        bisect(lo, hi, k) ==
            LET mid == (lo + hi) \div 2
                npv_mid == npv_at_rate(cfs, mid)
                npv_lo == npv_at_rate(cfs, lo)
            IN  IF k >= max_iterations THEN None
                ELSE IF npv_mid = 0 \/ hi - lo < 2 THEN Some(annual_rate(mid, ppy))
                ELSE IF (npv_mid > 0 /\ npv_lo < 0) \/ (npv_mid < 0 /\ npv_lo > 0)
                THEN bisect(lo, mid, k + 1)
                ELSE bisect(mid, hi, k + 1)
    IN  IF (npv_low > 0 /\ npv_high > 0) \/ (npv_low < 0 /\ npv_high < 0)
        THEN None
        ELSE bisect(LowRate, HighRate, 0)

\* one iteration of the Newton-Raphson loop of calculate_irr, with the
\* return that ends it
NewtonStep ==
    /\ irr_pc = "newton"
    /\ LET nd == npv_and_derivative(cashflows, rate)
           new_rate == bound_rate(rate - ((nd.npv * IrrScale) \div nd.dnpv))
       IN  IF iteration >= max_iterations \/ nd.dnpv = 0
           THEN /\ irr' = calculate_irr_bisection(cashflows, periods_per_year)
                /\ irr_pc' = "done"
                /\ UNCHANGED <<rate, iteration>>
           ELSE IF new_rate = rate
           THEN /\ irr' = Some(annual_rate(new_rate, periods_per_year))
                /\ irr_pc' = "done"
                /\ UNCHANGED <<rate, iteration>>
           ELSE /\ rate' = new_rate
                /\ iteration' = iteration + 1
                /\ UNCHANGED <<irr, irr_pc>>
    /\ UNCHANGED <<cashflows, periods_per_year>>
    /\ UNCHANGED <<projVars, resVars, blkVars>>

IrrNext == CalculateIrr \/ NewtonStep

IrrSpec == IrrInit /\ [][IrrNext]_vars

(***************************************************************************)
(* BenefitCalculator (reserves/benefits.rs, reserves/discount.rs)          *)
(*                                                                         *)
(* calc is the CARVMCalculator the benefit calculator is built from: its   *)
(* assumptions and its max_projection_months.  The discount curve is       *)
(* DiscountCurve::single_rate(policy.val_rate).                            *)
(***************************************************************************)

\* survival probabilities at or below this end a present-value loop (1e-10)
SurvivalEps == 0

\* DiscountCurve::elective_discount_factor and death_benefit_discount_factor
\* of a single-rate curve: 1 / (1 + rate / 12)
discount_factor(val_rate) == Div(One, One + val_rate \div 12)

\* v.powi(months)
discount_powi(v, months) ==
    LET RECURSIVE pw(_)
        pw(k) == IF k = 0 THEN One ELSE Mul(pw(k - 1), v)
    IN  pw(months)

\* mortality of the policy at valuation-time month t
reserve_q(calc, p, t) == monthly_rate(calc.assumptions.mortality, attained_age(p, t), t)

\* BenefitCalculator::project_state_forward: <<av, bb>> one month on
project_state_forward(calc, p, month, active, av, bb) ==
    LET age == attained_age(p, month)
        py == policy_year(p, month)
        month_in_py == month_in_policy_year(p, month)
        q == reserve_q(calc, p, month)
        rider_charge ==
            IF month % 12 = 0
            THEN Mul(bb, IF active THEN post_activation_charge ELSE pre_activation_charge)
            ELSE 0
        systematic_wd ==
            IF active THEN Mul(bb, get_single_life(calc.assumptions.payout, age)) \div 12
            ELSE 0
        av1 == Max(av - systematic_wd - rider_charge, 0)
        rollup_factor == Div(One + glwb_bonus_rate + glwb_rollup_rate * Min(py, 10),
                             One + glwb_bonus_rate + glwb_rollup_rate * Min(py - 1, 10))
        bb1 == IF ~active /\ month_in_py = 12 /\ py <= p.sc_period
               THEN Mul(bb, rollup_factor) ELSE bb
    IN  << Mul(av1, One - q), Mul(bb1, One - q) >>

\* BenefitCalculator::death_benefit_pv; activation_month is None or Some(m).
\* The loop is a recursion over the months; each pass takes its state from
\* a singleton set, so that it is computed once.
death_benefit_pv(calc, p, valuation_month, activation_month, start_av, start_bb) ==
    LET v_death == discount_factor(p.val_rate)
        \* one pass of the for loop; stop is the break on survival_prob
        pass(t, s) ==
            LET active == activation_month # None /\ t >= unwrap(activation_month)
                q == reserve_q(calc, p, t)
                db == s.av
                nxt == project_state_forward(calc, p, t, active, s.av, s.bb)
            IN  [ death_pv |-> s.death_pv
                                  + Mul(Mul(Mul(s.survival_prob, q), db),
                                        discount_powi(v_death, t - valuation_month)),
                  survival_prob |-> Mul(s.survival_prob, One - q),
                  av |-> nxt[1],
                  bb |-> nxt[2],
                  stop |-> Mul(s.survival_prob, One - q) <= SurvivalEps ]
        RECURSIVE loop(_, _)
        loop(t, s) ==
            IF t >= calc.config.max_projection_months \/ s.stop THEN s.death_pv
            ELSE CHOOSE pv \in { loop(t1, s1) : t1 \in {t + 1},
                                                s1 \in { pass(t, s0) : s0 \in {s} } } : TRUE
    IN  CHOOSE pv \in { loop(valuation_month, s0) :
                            s0 \in {[ death_pv |-> 0, survival_prob |-> One,
                                      av |-> start_av, bb |-> start_bb,
                                      stop |-> FALSE ]} } : TRUE

\* the annuity-due sum shared by income_benefit_pv and remaining_income_pv:
\* monthly_income paid at every month t >= first_payment while alive
income_stream_pv(calc, p, valuation_month, first_payment, monthly_income) ==
    LET v_elective == discount_factor(p.val_rate)
        pass(t, s) ==
            LET q == reserve_q(calc, p, t)
            IN  [ income_pv |->
                      IF t >= first_payment
                      THEN s.income_pv
                           + Mul(Mul(s.survival_prob, monthly_income),
                                 discount_powi(v_elective, t - valuation_month))
                      ELSE s.income_pv,
                  survival_prob |-> Mul(s.survival_prob, One - q),
                  stop |-> Mul(s.survival_prob, One - q) <= SurvivalEps ]
        RECURSIVE loop(_, _)
        loop(t, s) ==
            IF t >= calc.config.max_projection_months \/ s.stop THEN s.income_pv
            ELSE CHOOSE pv \in { loop(t1, s1) : t1 \in {t + 1},
                                                s1 \in { pass(t, s0) : s0 \in {s} } } : TRUE
    IN  CHOOSE pv \in { loop(valuation_month, s0) :
                            s0 \in {[ income_pv |-> 0, survival_prob |-> One,
                                      stop |-> FALSE ]} } : TRUE

\* BenefitCalculator::income_benefit_pv
income_benefit_pv(calc, p, valuation_month, activation_month, start_bb) ==
    IF activation_month < valuation_month THEN 0
    ELSE LET payout_rate == get_single_life(calc.assumptions.payout,
                                            attained_age(p, activation_month))
             monthly_income == Mul(start_bb, payout_rate) \div 12
         IN  income_stream_pv(calc, p, valuation_month, activation_month, monthly_income)

\* BenefitCalculator::remaining_income_pv
remaining_income_pv(calc, p, valuation_month, current_bb, locked_payout_rate) ==
    income_stream_pv(calc, p, valuation_month, valuation_month,
                     Mul(current_bb, locked_payout_rate) \div 12)

(***************************************************************************)
(* Roll-forward cache (reserves/cache.rs)                                  *)
(***************************************************************************)

\* f64::MAX, the ITM of an empty account
F64MAX == 2000000000

\* bb / av, or f64::MAX when av is not positive
itm_or_max(av, bb) == IF av > 0 THEN Div(bb, av) ELSE F64MAX

\* (cur - base).abs() / base.max(floor) where either may be f64::MAX
relative_change(cur, base, floor) ==
    IF cur = base THEN 0
    ELSE IF base = F64MAX THEN One
    ELSE IF cur = F64MAX THEN F64MAX
    ELSE Div(Abs(cur - base), Max(base, floor))

\* CachedReservePath::new
CachedReservePath(policy_id, solve_month, t_star, reserve, av, bb, monthly_income, death_pv, sc_rate) ==
    [ policy_id |-> policy_id,
      solve_month |-> solve_month,
      optimal_activation_month |-> t_star,
      reserve_at_solve |-> reserve,
      av_at_solve |-> av,
      bb_at_solve |-> bb,
      itm_at_solve |-> itm_or_max(av, bb),
      sc_rate_at_solve |-> sc_rate,
      monthly_income_amount |-> monthly_income,
      death_benefit_pv_remaining |-> death_pv ]

\* CachedReservePath::is_potentially_valid (no caller in the program)
is_potentially_valid(cached, current_month) == current_month >= cached.solve_month

\* CachedReservePath::approaching_activation
\* a proximity test that leaves out the last month of the window
approaching_activation_strict(cached, current_month, threshold_months) ==
    Max(cached.optimal_activation_month - current_month, 0) < threshold_months

approaching_activation(cached, current_month, threshold_months) ==
    Max(cached.optimal_activation_month - current_month, 0) <= threshold_months

\* a periodic check that fires one month late
periodic_due_late(months_elapsed, periodic_revalidation_months) ==
    months_elapsed > periodic_revalidation_months

\* the periodic check of needs_revalidation
periodic_due(months_elapsed, periodic_revalidation_months) ==
    months_elapsed >= periodic_revalidation_months

\* RevalidationCriteria::needs_revalidation: TRUE for Some(reason)
needs_revalidation(criteria, cached, current_month, current_av, current_bb) ==
    LET months_elapsed == Max(current_month - cached.solve_month, 0)
        current_itm == itm_or_max(current_av, current_bb)
        itm_change == relative_change(current_itm, cached.itm_at_solve, Rate(1, 100))
        av_change == relative_change(current_av, cached.av_at_solve, 1)
    IN  IF periodic_due(months_elapsed, criteria.periodic_revalidation_months) THEN TRUE
        ELSE IF itm_change > criteria.itm_change_threshold THEN TRUE
        ELSE IF approaching_activation(cached, current_month,
                                       criteria.activation_proximity_months) THEN TRUE
        ELSE IF av_change > criteria.av_deviation_threshold THEN TRUE
        ELSE FALSE

(***************************************************************************)
(* CARVMCalculator (reserves/carvm.rs)                                     *)
(***************************************************************************)

\* ReserveComponents
ReserveComponents(death_pv, income_pv, surrender_pv, elective_pv) ==
    [ death_benefit_pv |-> death_pv,
      income_benefit_pv |-> income_pv,
      surrender_value_pv |-> surrender_pv,
      elective_benefit_pv |-> elective_pv,
      free_pwd_pv |-> 0 ]

\* get_av_at_month and get_bb_at_month: the starting values at every month
get_av_at_month(p, month) == starting_av(p)

get_bb_at_month(p, month) == starting_benefit_base(p)

\* CARVMCalculator::cash_surrender_value
cash_surrender_value(p, month, av) ==
    Mul(av, One - surrender_get_rate(policy_year(p, month)))

\* a comparison that also accepts a candidate equal to the best so far
improves_or_ties(total, best_reserve) == total >= best_reserve

\* total > best_reserve, the test of both updates of brute_force_solve
improves(total, best_reserve) == total > best_reserve

\* CARVMCalculator::brute_force_solve.  The loop is a recursion over the
\* candidate months; each present value is taken from a singleton set, so
\* that it is computed once.
brute_force_solve(calc, p, valuation_month, current_av, current_bb) ==
    LET max_deferral == valuation_month + calc.config.max_deferral_years * 12
        last_month == Min(max_deferral, calc.config.max_projection_months)
        \* the body of the for loop for one activation month
        consider(activation_month, best, death_pv, income_pv) ==
            IF improves(death_pv + income_pv, best.reserve)
            THEN [ activation |-> activation_month,
                   reserve |-> death_pv + income_pv,
                   components |-> ReserveComponents(death_pv, income_pv, 0, income_pv) ]
            ELSE best
        RECURSIVE scan(_, _)
        scan(activation_month, best) ==
            IF activation_month > last_month THEN best
            ELSE CHOOSE r \in
                     { scan(next_month, consider(activation_month, b, death_pv, income_pv)) :
                           next_month \in {activation_month + 1},
                           b \in {best},
                           death_pv \in { death_benefit_pv(calc, p, valuation_month,
                                                           Some(activation_month),
                                                           current_av, current_bb) },
                           income_pv \in { income_benefit_pv(calc, p, valuation_month,
                                                             activation_month,
                                                             current_bb) } } : TRUE
        \* the "never activate" test after the loop
        never(best, never_death_pv) ==
            IF improves(never_death_pv, best.reserve)
            THEN [ activation |-> U32MAX,
                   reserve |-> never_death_pv,
                   components |-> ReserveComponents(never_death_pv, 0, 0, 0) ]
            ELSE best
    IN  CHOOSE r \in
            { never(best, never_death_pv) :
                  best \in { scan(valuation_month,
                                  [ activation |-> U32MAX, reserve |-> 0,
                                    components |-> ReserveComponents(0, 0, 0, 0) ]) },
                  never_death_pv \in { death_benefit_pv(calc, p, valuation_month, None,
                                                        current_av, current_bb) } } : TRUE

\* dp_solve and hybrid_solve fall back to brute force
dp_solve(calc, p, valuation_month, current_av, current_bb) ==
    brute_force_solve(calc, p, valuation_month, current_av, current_bb)

hybrid_solve(calc, p, valuation_month, current_av, current_bb) ==
    brute_force_solve(calc, p, valuation_month, current_av, current_bb)

\* a result that forgets the floor
apply_csv_floor_forgotten(reserve, csv) == reserve

\* reserve.max(csv)
apply_csv_floor(reserve, csv) == Max(reserve, csv)

\* (final_reserve - csv).abs() < 0.01 on whole units
is_csv_binding(final_reserve, csv) == Abs(final_reserve - csv) = 0

\* a roll that always takes the step of the month it starts in
roll_accumulation_reserve_one_more(calc, r_prev, p, t_prev, t_now) ==
    LET v == discount_factor(p.val_rate)
        RECURSIVE roll(_, _)
        roll(t, reserve) ==
            IF t > t_now THEN reserve
            ELSE roll(t + 1, Div(reserve, Mul(One - reserve_q(calc, p, t), v)))
    IN  roll(t_prev, r_prev)

\* CARVMCalculator::roll_accumulation_reserve
roll_accumulation_reserve(calc, r_prev, p, t_prev, t_now) ==
    LET v == discount_factor(p.val_rate)
        RECURSIVE roll(_, _)
        roll(t, reserve) ==
            IF t >= t_now THEN reserve
            ELSE roll(t + 1, Div(reserve, Mul(One - reserve_q(calc, p, t), v)))
    IN  roll(t_prev, r_prev)

\* CARVMCalculator::try_roll_forward
try_roll_forward(calc, p, valuation_month, cached) ==
    LET t_star == cached.optimal_activation_month
        current_av == get_av_at_month(p, valuation_month)
        current_bb == get_bb_at_month(p, valuation_month)
        current_itm == itm_or_max(current_av, current_bb)
    IN  IF valuation_month < t_star
        THEN [ kind |-> "Success",
               reserve |-> roll_accumulation_reserve(calc, cached.reserve_at_solve, p,
                                                     cached.solve_month, valuation_month),
               still_valid |-> relative_change(current_itm, cached.itm_at_solve,
                                               Rate(1, 100)) < Rate(10, 100) ]
        ELSE IF valuation_month >= t_star /\ t_star < U32MAX
        THEN [ kind |-> "Success",
               reserve |->
                   remaining_income_pv(calc, p, valuation_month, current_bb,
                       get_single_life(calc.assumptions.payout, attained_age(p, t_star)))
                   + death_benefit_pv(calc, p, valuation_month, Some(t_star),
                                      current_av, current_bb),
               still_valid |-> TRUE ]
        ELSE [ kind |-> "NeedsResolve", reserve |-> 0, still_valid |-> FALSE ]

\* ReserveCache::record_hit, record_miss, record_revalidation and insert
record_hit(cache) == [ cache EXCEPT !.cache_hits = @ + 1 ]

record_miss(cache) == [ cache EXCEPT !.cache_misses = @ + 1 ]

\* a revalidation that is also counted as a miss
record_revalidation_and_miss(cache) ==
    [ cache EXCEPT !.revalidations = @ + 1, !.cache_misses = @ + 1 ]

record_revalidation(cache) == [ cache EXCEPT !.revalidations = @ + 1 ]

cache_insert(cache, path) == [ cache EXCEPT !.entries[path.policy_id] = Some(path) ]

\* CARVMCalculator::full_solve_and_cache for a calculator whose counters
\* are already updated: the calculator after the call, the result and what
\* the solver returned
full_solve_and_cache(calc, p, valuation_month, current_av, current_bb) ==
    LET \* the function after the match on config.method
        finish(solved) ==
            LET optimal_month == solved.activation
                csv == cash_surrender_value(p, valuation_month, current_av)
                final_reserve == apply_csv_floor(solved.reserve, csv)
                monthly_income ==
                    IF optimal_month < U32MAX
                    THEN Mul(current_bb,
                             get_single_life(calc.assumptions.payout,
                                             attained_age(p, optimal_month))) \div 12
                    ELSE 0
                cached_path ==
                    CachedReservePath(p.policy_id, valuation_month, optimal_month,
                                      solved.reserve, current_av, current_bb,
                                      monthly_income, solved.components.death_benefit_pv,
                                      surrender_get_rate(policy_year(p, valuation_month)))
                binding == is_csv_binding(final_reserve, csv)
            IN  [ calculator |->
                      IF calc.config.use_caching
                      THEN [ calc EXCEPT !.cache = cache_insert(calc.cache, cached_path) ]
                      ELSE calc,
                  result |->
                      [ policy_id |-> p.policy_id,
                        valuation_date |-> valuation_month,
                        gross_reserve |-> final_reserve,
                        net_reserve |-> final_reserve,
                        optimal_activation_month |->
                            IF binding THEN U32MAX ELSE optimal_month,
                        reserve_components |->
                            IF binding
                            THEN [ solved.components EXCEPT !.surrender_value_pv = csv ]
                            ELSE solved.components,
                        method |-> "CARVM",
                        from_cache |-> FALSE,
                        csv_at_valuation |-> csv ],
                  solve |-> Some(solved) ]
    IN  CHOOSE out \in
            { finish(solved) :
                  solved \in
                      { CASE calc.config.method = "BruteForce" ->
                                 brute_force_solve(calc, p, valuation_month,
                                                   current_av, current_bb)
                          [] calc.config.method = "DynamicProgramming" ->
                                 dp_solve(calc, p, valuation_month, current_av, current_bb)
                          [] calc.config.method = "Hybrid" ->
                                 hybrid_solve(calc, p, valuation_month,
                                              current_av, current_bb) } } : TRUE

\* CARVMCalculator::calculate_with_cache
calculate_with_cache(calc, p, valuation_month) ==
    LET current_av == get_av_at_month(p, valuation_month)
        current_bb == get_bb_at_month(p, valuation_month)
        cached_data == calc.cache.entries[p.policy_id]
        cached == unwrap(cached_data)
        \* how the cache answers: the counter recorded, and whether the
        \* roll-forward result is returned
        outcome ==
            IF ~calc.config.use_caching THEN "off"
            ELSE IF cached_data = None THEN "miss"
            ELSE IF needs_revalidation(calc.config.revalidation_criteria, cached,
                                       valuation_month, current_av, current_bb)
            THEN "revalidation"
            ELSE IF try_roll_forward(calc, p, valuation_month, cached).kind = "Success"
            THEN "hit"
            ELSE "miss"
        counted ==
            CASE outcome = "off" -> calc.cache
              [] outcome = "miss" -> record_miss(calc.cache)
              [] outcome = "revalidation" -> record_revalidation(calc.cache)
              [] outcome = "hit" -> record_hit(calc.cache)
    IN  IF outcome = "hit"
        THEN LET reserve == try_roll_forward(calc, p, valuation_month, cached).reserve
                 csv == cash_surrender_value(p, valuation_month, current_av)
                 final_reserve == apply_csv_floor(reserve, csv)
             IN  [ calculator |-> [ calc EXCEPT !.cache = counted ],
                   result |->
                       [ policy_id |-> p.policy_id,
                         valuation_date |-> valuation_month,
                         gross_reserve |-> final_reserve,
                         net_reserve |-> final_reserve,
                         optimal_activation_month |-> cached.optimal_activation_month,
                         reserve_components |->
                             ReserveComponents(
                                 cached.death_benefit_pv_remaining,
                                 reserve - cached.death_benefit_pv_remaining,
                                 IF is_csv_binding(final_reserve, csv) THEN csv ELSE 0,
                                 reserve - cached.death_benefit_pv_remaining),
                         method |-> "CARVM",
                         from_cache |-> TRUE,
                         csv_at_valuation |-> csv ],
                   solve |-> None ]
        ELSE full_solve_and_cache([ calc EXCEPT !.cache = counted ], p, valuation_month,
                                  current_av, current_bb)

(***************************************************************************)
(* The calculator as a state machine: one step per calculate_reserve       *)
(***************************************************************************)

MaxProjectionMonths == 6

MaxCalls == 2

PeriodicRevalidationMonths == 3

ActivationProximityMonths == 1

PolicyIds == {1, 2}

ValuationMonths == {0, 1, PeriodicRevalidationMonths, MaxProjectionMonths}

ReservePolicy(id, age, duration, av, bb) ==
    [ policy_id |-> id, qual_status |-> "Q", issue_age |-> age,
      initial_benefit_base |-> 130000, initial_pols |-> One,
      initial_premium |-> 100000, crediting_strategy |-> "Indexed",
      sc_period |-> 10, val_rate |-> Rate(475, 10000),
      duration_months |-> duration, income_activated |-> FALSE,
      glwb_start_year |-> 99, current_av |-> av, current_benefit_base |-> bb ]

\* policy 1 as issued, with a higher benefit base, and with account value
\* and benefit base both lower; policy 2 as issued and with an empty account
ReservePolicies ==
    { ReservePolicy(1, 65, 0, None, None),
      ReservePolicy(1, 65, 0, None, Some(150000)),
      ReservePolicy(1, 65, 0, Some(80000), Some(104000)),
      ReservePolicy(2, 70, 10, None, None),
      ReservePolicy(2, 70, 10, Some(0), None) }

\* RevalidationCriteria, with the months scaled to the horizon
Criteria ==
    [ periodic_revalidation_months |-> PeriodicRevalidationMonths,
      itm_change_threshold |-> Rate(10, 100),
      activation_proximity_months |-> ActivationProximityMonths,
      av_deviation_threshold |-> Rate(15, 100),
      check_sc_boundaries |-> TRUE ]

CARVMConfigs ==
    { [ method |-> "Hybrid", max_projection_months |-> MaxProjectionMonths,
        use_caching |-> c, revalidation_criteria |-> Criteria,
        max_deferral_years |-> d ] : c \in BOOLEAN, d \in {0, 1} }

\* CARVMCalculator::new
CARVMCalculator(asm, cfg) ==
    [ assumptions |-> asm,
      config |-> cfg,
      cache |-> [ entries |-> [ id \in PolicyIds |-> None ],
                  cache_hits |-> 0, cache_misses |-> 0, revalidations |-> 0 ] ]

ResInit ==
    /\ \E payout \in {"default", "loaded"}, cfg \in CARVMConfigs :
           calculator = CARVMCalculator([ mortality |-> "iam", payout |-> payout ], cfg)
    /\ last_call = None
    /\ last_result = None
    /\ last_solve = None
    /\ calls = 0
    /\ repeated = FALSE
    /\ ProjIdle
    /\ IrrIdle
    /\ BlkIdle

\* ReserveCalculator::calculate_reserve
CalculateReserve ==
    /\ calculator # None
    /\ calls < MaxCalls
    /\ \E p \in ReservePolicies, valuation_month \in ValuationMonths :
           \E out \in { calculate_with_cache(calculator, p, valuation_month) } :
               /\ calculator' = out.calculator
               /\ last_call' = Some([ policy |-> p, valuation_month |-> valuation_month ])
               /\ last_result' = Some(out.result)
               /\ last_solve' = out.solve
               /\ repeated' = (last_call = Some([ policy |-> p,
                                                  valuation_month |-> valuation_month ]))
    /\ calls' = calls + 1
    /\ UNCHANGED <<projVars, irrVars, blkVars>>

ResNext == CalculateReserve

ResSpec == ResInit /\ [][ResNext]_vars

\* ReserveCache::clear
cache_clear(cache) ==
    [ cache EXCEPT !.entries = [ id \in PolicyIds |-> None ],
                   !.cache_hits = 0, !.cache_misses = 0, !.revalidations = 0 ]

\* ReserveCalculator::clear_cache, between two calls
ClearCache ==
    /\ calculator # None
    /\ calls > 0
    /\ calculator' = [ calculator EXCEPT !.cache = cache_clear(@) ]
    /\ calls' = 0
    /\ UNCHANGED <<last_call, last_result, last_solve, repeated>>
    /\ UNCHANGED <<projVars, irrVars, blkVars>>

ResClearNext == CalculateReserve \/ ClearCache

\* the calculator with its cache cleared at any point between calls
ResClearSpec == ResInit /\ [][ResClearNext]_vars

(***************************************************************************)
(* Block run (bin/cost_of_funds.rs main): the projections run on a thread  *)
(* pool, their results are collected into a Vec and one thread adds them   *)
(***************************************************************************)

\* cells of a block
MaxCells == 3

\* num_months = config.projection_months of a block run
BlkMonths == 2

\* bits of the significand of the model's floating-point numbers
MantissaBits == 3

RECURSIVE Pow2(_)
Pow2(n) == IF n = 0 THEN 1 ELSE 2 * Pow2(n - 1)

\* x / 2 rounded to the nearest integer, ties to even
HalfToEven(x) ==
    LET q == x \div 2
    IN  IF x % 2 = 0 \/ q % 2 = 0 THEN q ELSE q + 1

\* the nearest number whose significand fits MantissaBits bits
RECURSIVE fl(_)
fl(x) == IF Abs(x) <= Pow2(MantissaBits) THEN x ELSE 2 * fl(HalfToEven(x))

\* f64 addition: the exact sum, rounded
fadd(a, b) == fl(a + b)

\* total_net_cashflow values of a row: small, large and negative
NetCashflows == { 1, Pow2(MantissaBits), -Pow2(MantissaBits) }

\* what engine.project_policy returns for a cell: its rows' projection_month
\* and total_net_cashflow; a projection may break before num_months
CellCashflows ==
    { [ m \in 1..n |-> [ projection_month |-> m, total_net_cashflow |-> x ] ]
      : n \in 0..BlkMonths, x \in NetCashflows }

\* engine.project_policy(policy), a function of the policy alone
block_project_policy(p) == [ cashflows |-> p.cashflows ]

\* collect() of a parallel map that puts each result where it lands
collect_as_finished(res, i, r) ==
    LET free == CHOOSE k \in 1..Len(res) :
                    res[k] = None /\ \A j \in 1..(k - 1) : res[j] # None
    IN  [res EXCEPT ![free] = Some(r)]

\* collect() of an indexed parallel iterator: result i goes to position i
collect(res, i, r) == [res EXCEPT ![i] = Some(r)]

\* "for row in &result.cashflows": agg.net_cashflow += row.total_net_cashflow
RECURSIVE add_rows(_, _, _)
add_rows(agg, rows, k) ==
    IF k > Len(rows) THEN agg
    ELSE LET idx == rows[k].projection_month - 1
         IN  add_rows(IF idx < Len(agg)
                      THEN [agg EXCEPT ![idx + 1] = fadd(@, rows[k].total_net_cashflow)]
                      ELSE agg,
                      rows, k + 1)

BlkInit ==
    /\ policies \in [1..MaxCells -> { [ cashflows |-> c ] : c \in CellCashflows }]
    /\ results = [ i \in 1..MaxCells |-> None ]
    /\ detailed_cashflows = [ m \in 1..BlkMonths |-> 0 ]
    /\ result_idx = 0
    /\ overtaken = FALSE
    /\ blk_pc = "map"
    /\ ProjIdle
    /\ IrrIdle
    /\ ResIdle

Outstanding == { i \in 1..Len(policies) : \A k \in 1..Len(results) : results[k] # Some([ policy_id |-> i ] @@ block_project_policy(policies[i])) }

\* a worker of the pool finishes the projection of one cell
WorkerFinish ==
    /\ blk_pc = "map"
    /\ \E i \in Outstanding :
           /\ results' = collect(results, i, [ policy_id |-> i ] @@ block_project_policy(policies[i]))
           /\ overtaken' = (overtaken \/ \E j \in Outstanding : j < i)
    /\ UNCHANGED <<policies, detailed_cashflows, result_idx, blk_pc>>
    /\ UNCHANGED <<projVars, irrVars, resVars>>

\* collect() returns once every cell is done
Collected ==
    /\ blk_pc = "map"
    /\ Outstanding = {}
    /\ blk_pc' = "aggregate"
    /\ result_idx' = 1
    /\ UNCHANGED <<policies, results, detailed_cashflows, overtaken>>
    /\ UNCHANGED <<projVars, irrVars, resVars>>

\* one iteration of "for result in &results"
AggregateResult ==
    /\ blk_pc = "aggregate"
    /\ result_idx <= Len(results)
    /\ detailed_cashflows' = add_rows(detailed_cashflows, unwrap(results[result_idx]).cashflows, 1)
    /\ result_idx' = result_idx + 1
    /\ UNCHANGED <<policies, results, overtaken, blk_pc>>
    /\ UNCHANGED <<projVars, irrVars, resVars>>

\* the loop is over: the net cashflows go to the IRR
AggregateDone ==
    /\ blk_pc = "aggregate"
    /\ result_idx > Len(results)
    /\ blk_pc' = "done"
    /\ UNCHANGED <<policies, results, detailed_cashflows, result_idx, overtaken>>
    /\ UNCHANGED <<projVars, irrVars, resVars>>

BlkNext == WorkerFinish \/ Collected \/ AggregateResult \/ AggregateDone

BlkSpec == BlkInit /\ [][BlkNext]_vars

(***************************************************************************)
(* Properties of the IRR solver                                            *)
(***************************************************************************)

\* C5: whenever calculate_irr returns Some(r), the NPV of the vector at the
\* periodic rate (1 + r)^(1 / periods_per_year) - 1 is within tolerance of 0:
\* on the grid, the NPV is zero or changes sign within one grid step of that
\* rate (up to one rounding unit per entry).
C5_ReturnedRateIsRoot ==
    irr_pc = "done" /\ irr # None =>
        LET periodic == CHOOSE x \in LowRate..HighRate :
                            annual_rate(x, periods_per_year) = unwrap(irr)
            around == { Max(periodic - 1, LowRate), periodic, periodic + 1 }
        IN  \E a, b \in around :
                /\ npv_at_rate(cashflows, a) <= Len(cashflows)
                /\ npv_at_rate(cashflows, b) >= -Len(cashflows)

\* C6 as amended: for a non-empty vector, Some(0) when every entry is within
\* tolerance of zero; None when the vector is empty, or when some entry is
\* away from zero and the entries show no sign change.
C6_EarlyReturns ==
    irr_pc = "done" =>
        LET n == Len(cashflows)
            zero == \A i \in 1..n : Abs(cashflows[i]) = 0
            no_change == (\A i \in 1..n : cashflows[i] <= 0)
                         \/ (\A i \in 1..n : cashflows[i] >= 0)
        IN  /\ n > 0 /\ zero => irr = Some(0)
            /\ n = 0 \/ (~zero /\ no_change) => irr = None

\* a vector of two or more entries of one sign, some away from zero and
\* some zero, answered with None
C6_Witness ==
    /\ irr_pc = "done"
    /\ Len(cashflows) >= 2
    /\ \A i \in 1..Len(cashflows) : cashflows[i] >= 0
    /\ \E i \in 1..Len(cashflows) : cashflows[i] > 0
    /\ \E i \in 1..Len(cashflows) : cashflows[i] = 0
    /\ irr = None

\* C6 as stated: for any vector, Some(0) when every entry is within
\* tolerance of zero, and None when the entries show no sign change.
C6_AsStated ==
    irr_pc = "done" =>
        LET n == Len(cashflows)
        IN  /\ (\A i \in 1..n : Abs(cashflows[i]) = 0) => irr = Some(0)
            /\ (~(\E i \in 1..n : cashflows[i] > 0)
                \/ ~(\E i \in 1..n : cashflows[i] < 0)) => irr = None

(***************************************************************************)
(* Properties of the projection                                            *)
(***************************************************************************)

Rows == 1..Len(result)

\* C1: every emitted row has eop_av >= 0, and once a row has eop_av = 0
\* every later row has bop_av = 0 and eop_av = 0, whatever the crediting
\* approach and with or without systematic withdrawals.
C1_AvNonNegativeAndAbsorbing ==
    \A i \in Rows :
        /\ result[i].eop_av >= 0
        /\ result[i].eop_av = 0 =>
               \A j \in Rows : j > i => result[j].bop_av = 0 /\ result[j].eop_av = 0

\* an account emptied by systematic withdrawals, followed by a later month
\* in which a withdrawal is still taken
C1_Witness ==
    \E i \in Rows :
        /\ result[i].bop_av > 0
        /\ result[i].eop_av = 0
        /\ result[i].systematic_withdrawal > result[i].bop_av
        /\ \E j \in Rows : j > i /\ result[j].systematic_withdrawal > 0

\* C3: with mortality and lapse rates in [0, 1], lives never increase from
\* one row to the next and never go below zero, and the three cumulative
\* persistency factors never increase.
C3_LivesAndPersistencyNonIncreasing ==
    \A i \in Rows :
        /\ result[i].lives >= 0
        /\ result[i].lives <= policy.initial_pols
        /\ result[i].lives_persistency <= One
        /\ result[i].av_persistency <= One
        /\ result[i].bb_persistency <= One
        /\ i + 1 \in Rows =>
              /\ result[i].lives >= result[i + 1].lives
              /\ result[i].lives_persistency >= result[i + 1].lives_persistency
              /\ result[i].av_persistency >= result[i + 1].av_persistency
              /\ result[i].bb_persistency >= result[i + 1].bb_persistency

\* lives that strictly fall over two months under positive mortality
C3_Witness ==
    \E i \in Rows :
        /\ i + 1 \in Rows
        /\ result[i].final_mortality > 0
        /\ result[i + 1].final_lapse_rate > 0
        /\ result[i].lives > result[i + 1].lives
        /\ result[i + 1].lives > 0

ActiveRows == { i \in Rows : result[i].glwb_activated }

FirstActiveRow == CHOOSE i \in ActiveRows : \A j \in ActiveRows : i <= j

\* C4: from the first month income is active the locked payout rate is the
\* payout factor at that month's attained age and never changes, and every
\* later month's systematic withdrawal is BOP benefit base * locked rate / 12
\* even after the attained age has moved to another payout band.
C4_PayoutRateLocked ==
    ActiveRows # {} =>
        LET locked == get_single_life(assumptions.payout,
                                      result[FirstActiveRow].attained_age)
        IN  /\ state.locked_payout_rate = Some(locked)
            /\ \A i \in ActiveRows :
                   result[i].systematic_withdrawal
                       = Mul(result[i].bop_benefit_base, locked) \div 12

\* an active month whose attained age has a payout factor different from
\* the one locked at activation
C4_Witness ==
    /\ ActiveRows # {}
    /\ \E i \in ActiveRows :
           /\ get_single_life(assumptions.payout, result[i].attained_age)
                  # get_single_life(assumptions.payout,
                                     result[FirstActiveRow].attained_age)
           /\ result[i].systematic_withdrawal > 0

(***************************************************************************)
(* Properties of the reserve calculator                                    *)
(***************************************************************************)

\* the policy and valuation month of the latest call, the entry of that
\* policy now in the cache, and the values the call started from
CallPolicy == unwrap(last_call).policy

CallMonth == unwrap(last_call).valuation_month

CallEntry == unwrap(calculator.cache.entries[CallPolicy.policy_id])

\* the latest result is a full solve, or a roll-forward of an entry solved
\* at or before the valuation month
InMonthOrder ==
    unwrap(last_result).from_cache => CallEntry.solve_month <= CallMonth

\* the reserve a result carries before the floor: its death and elective PVs
Unfloored(r) ==
    r.reserve_components.death_benefit_pv + r.reserve_components.elective_benefit_pv

\* C2: every result of calculate_reserve, from a full solve or from a cache
\* roll-forward, has gross_reserve >= csv_at_valuation.
C2_ReserveAtLeastCsv ==
    last_result # None =>
        unwrap(last_result).gross_reserve >= unwrap(last_result).csv_at_valuation

\* a roll-forward whose rolled reserve lies below the cash surrender value
C2_Witness ==
    /\ last_result # None
    /\ unwrap(last_result).from_cache
    /\ Unfloored(unwrap(last_result)) < unwrap(last_result).csv_at_valuation
    /\ unwrap(last_result).csv_at_valuation > 0

\* the candidate activation months of a solve at the month of the call
CandidateMonths ==
    CallMonth .. Min(CallMonth + 12 * calculator.config.max_deferral_years,
                     calculator.config.max_projection_months)

\* death PV + income PV of activating at month a
CandidateTotal(a) ==
    death_benefit_pv(calculator, CallPolicy, CallMonth, Some(a),
                     starting_av(CallPolicy), starting_benefit_base(CallPolicy))
    + income_benefit_pv(calculator, CallPolicy, CallMonth, a,
                        starting_benefit_base(CallPolicy))

NeverTotal ==
    death_benefit_pv(calculator, CallPolicy, CallMonth, None,
                     starting_av(CallPolicy), starting_benefit_base(CallPolicy))

\* the maximum of 0, the never-activate PV and every candidate total
GreatestPv ==
    LET all == {0, NeverTotal} \cup { CandidateTotal(a) : a \in CandidateMonths }
    IN  CHOOSE x \in all : \A y \in all : x >= y

Attaining == { a \in CandidateMonths : CandidateTotal(a) = GreatestPv }

Earliest(months) == CHOOSE a \in months : \A b \in months : a <= b

\* C7 as amended: brute_force_solve returns the maximum of 0, the
\* never-activate death PV and death PV + income PV over the candidate months;
\* the activation month is the earliest candidate attaining the maximum when
\* the maximum is positive, and the sentinel when the maximum is 0 or no
\* candidate attains it; a non-sentinel optimum lies in the candidate range.
C7_BruteForceOptimum ==
    last_solve # None =>
        /\ unwrap(last_solve).reserve = GreatestPv
        /\ unwrap(last_solve).activation =
               IF GreatestPv > 0 /\ Attaining # {} THEN Earliest(Attaining) ELSE U32MAX
        /\ unwrap(last_solve).activation # U32MAX =>
               unwrap(last_solve).activation \in CandidateMonths

\* a positive maximum attained by several candidate months and by the
\* never-activate path alike
C7_Witness ==
    /\ last_solve # None
    /\ GreatestPv > 0
    /\ Cardinality(Attaining) >= 2
    /\ NeverTotal = GreatestPv
    /\ unwrap(last_solve).activation = Earliest(Attaining)

\* C7 as stated: the activation month is the earliest candidate attaining
\* the maximum, and the sentinel only when no candidate attains it.
C7_AsStated ==
    last_solve # None =>
        /\ unwrap(last_solve).reserve = GreatestPv
        /\ unwrap(last_solve).activation =
               IF Attaining # {} THEN Earliest(Attaining) ELSE U32MAX
        /\ unwrap(last_solve).activation # U32MAX =>
               unwrap(last_solve).activation \in CandidateMonths

\* C8: in every result where CSV is binding, surrender_value_pv is the CSV
\* and optimal_activation_month is the sentinel; in every other result
\* death_benefit_pv + elective_benefit_pv is the gross reserve.  Stated for
\* full solves and for roll-forwards of an entry solved at or before the
\* valuation month.
C8_ComponentsOfResult ==
    last_result # None /\ InMonthOrder =>
        LET r == unwrap(last_result)
        IN  IF Abs(r.gross_reserve - r.csv_at_valuation) = 0
            THEN /\ r.reserve_components.surrender_value_pv = r.csv_at_valuation
                 /\ r.optimal_activation_month = U32MAX
            ELSE Unfloored(r) = r.gross_reserve

C10_NeverPathFromCache ==
    /\ last_result # None
    /\ unwrap(last_result).from_cache
    /\ CallEntry.optimal_activation_month = U32MAX
    /\ InMonthOrder
    => Unfloored(unwrap(last_result)) = NeverTotal

\* C11: a result with from_cache = true is a roll-forward of an entry whose
\* solve_month is at or before the valuation month; a call at a valuation
\* month earlier than the cached solve_month is answered by a full solve.
C11_RollForwardOnlyForward ==
    [][ LET call == unwrap(last_call')
            entry == calculator.cache.entries[call.policy.policy_id]
        IN  /\ unwrap(last_result').from_cache =>
                   is_potentially_valid(unwrap(entry), call.valuation_month)
            /\ entry # None /\ call.valuation_month < unwrap(entry).solve_month =>
                   ~unwrap(last_result').from_cache /\ last_solve' # None ]_vars

(***************************************************************************)
(* Further properties of the projection                                    *)
(***************************************************************************)

\* the running product of (1 - final_mortality_k)(1 - final_lapse_rate_k)
\* over the rows k = 1..m, multiplied in row order
SurvivalProduct(m) ==
    LET RECURSIVE prod(_)
        prod(k) ==
            IF k = 0 THEN One
            ELSE Mul(prod(k - 1),
                     Mul(One - result[k].final_mortality, One - result[k].final_lapse_rate))
    IN  prod(m)

\* C12: in every row m, lives_persistency is the product over k = 1..m of
\* (1 - final_mortality_k)(1 - final_lapse_rate_k), and av_persistency and
\* bb_persistency are that same product: partial-withdrawal and rider-charge
\* rates never enter the cumulative factors.
C12_PersistencyIsSurvivalProduct ==
    \A m \in Rows :
        /\ result[m].lives_persistency = SurvivalProduct(m)
        /\ result[m].av_persistency = SurvivalProduct(m)
        /\ result[m].bb_persistency = SurvivalProduct(m)

\* a row reached after months with a partial withdrawal, a rider charge,
\* mortality and lapse, with lives still in force
C12_Witness ==
    \E m \in Rows :
        /\ m >= 3
        /\ result[m].lives_persistency > 0
        /\ result[m].lives_persistency < One
        /\ \E k \in 1..m : result[k].non_systematic_pwd_rate > 0
        /\ \E k \in 1..m : result[k].rider_charge_rate > 0
        /\ \E k \in 1..m : result[k].final_lapse_rate > 0
        /\ \E k \in 1..m : result[k].final_mortality > 0

\* C13: final_lapse_rate in projection month 1 is exactly 0 for every cell,
\* under the predictive lapse model and under a fixed_lapse_rate override.
C13_NoLapseInMonthOne ==
    \A i \in Rows :
        result[i].projection_month = 1 => result[i].final_lapse_rate = 0

\* a first month in the shock year of a funded contract under the
\* predictive model, followed by a month that does lapse
C13_Witness ==
    /\ Len(result) >= 2
    /\ result[1].projection_month = 1
    /\ result[1].bop_av > 0
    /\ result[1].policy_year = policy.sc_period + 1
    /\ config.fixed_lapse_rate = None
    /\ result[1].final_lapse_rate = 0
    /\ result[2].final_lapse_rate > 0

\* C14 as amended: for every cell whose projection month 1 lies in policy
\* year 1 (duration_months at most 11), fpw_pct = 0 and
\* non_systematic_pwd_rate = 0 in projection month 1, whatever the cell's
\* qualified status and attained age.
C14_NoWithdrawalInFirstPolicyYear ==
    \A i \in Rows :
        result[i].projection_month = 1 /\ policy.duration_months <= 11 =>
            /\ result[i].fpw_pct = 0
            /\ result[i].non_systematic_pwd_rate = 0

\* a cell seeded with a duration inside policy year 1: nothing is withdrawn
\* in projection month 1, and a later month of policy year 2 has a free
\* percentage and a partial-withdrawal rate
C14_Witness ==
    /\ policy.duration_months \in 1..11
    /\ Len(result) >= 2
    /\ result[1].fpw_pct = 0
    /\ result[1].non_systematic_pwd_rate = 0
    /\ \E j \in Rows : /\ result[j].policy_year = 2
                       /\ result[j].fpw_pct > 0
                       /\ result[j].non_systematic_pwd_rate > 0

\* C14 as stated: in projection month 1, fpw_pct = 0 and
\* non_systematic_pwd_rate = 0 for every cell, whatever its qualified status,
\* attained age and pre-seeded duration_months.
C14_AsStated ==
    \A i \in Rows :
        result[i].projection_month = 1 =>
            /\ result[i].fpw_pct = 0
            /\ result[i].non_systematic_pwd_rate = 0

\* C15: for every duration_months d and projection_month m with d + m >= 1,
\* policy_year = (d + m - 1) div 12 + 1 and month_in_policy_year =
\* (d + m - 1) mod 12 + 1, and for d + m = 0 both are 1; month_in_policy_year
\* is always in 1..12, and for d = 0 the months 1, 12, 13 give (1, 1), (1, 12),
\* (2, 1).
C15_PolicyTiming ==
    LET d == policy.duration_months
    IN  /\ \A i \in Rows :
               LET m == result[i].projection_month
               IN  /\ d + m >= 1
                   /\ result[i].policy_year = ((d + m - 1) \div 12) + 1
                   /\ result[i].month_in_policy_year = ((d + m - 1) % 12) + 1
                   /\ result[i].month_in_policy_year \in 1..12
                   /\ d = 0 /\ m = 1 =>
                          result[i].policy_year = 1 /\ result[i].month_in_policy_year = 1
                   /\ d = 0 /\ m = 12 =>
                          result[i].policy_year = 1 /\ result[i].month_in_policy_year = 12
                   /\ d = 0 /\ m = 13 =>
                          result[i].policy_year = 2 /\ result[i].month_in_policy_year = 1
        /\ d = 0 => policy_year(policy, 0) = 1 /\ month_in_policy_year(policy, 0) = 1

\* a new issue projected past its first anniversary
C15_Witness ==
    /\ policy.duration_months = 0
    /\ Len(result) >= 13
    /\ result[1].policy_year = 1
    /\ result[1].month_in_policy_year = 1
    /\ result[12].policy_year = 1
    /\ result[12].month_in_policy_year = 12
    /\ result[13].policy_year = 2
    /\ result[13].month_in_policy_year = 1

\* the last month of a cell, counted from issue, in which the attained age
\* is still 120
LastMonthWithinTable == 12 * (121 - policy.issue_age)

\* C16 as amended: in every row, attained_age is issue_age + policy_year - 1;
\* it does not exceed 120 in the rows up to month 12 * (121 - issue_age) from
\* issue, and exceeds 120 in every later row.
C16_AttainedAgeByPolicyYear ==
    \A i \in Rows :
        LET from_issue == policy.duration_months + result[i].projection_month
        IN  /\ result[i].attained_age = policy.issue_age + result[i].policy_year - 1
            /\ from_issue <= LastMonthWithinTable => result[i].attained_age <= 120
            /\ from_issue > LastMonthWithinTable => result[i].attained_age > 120

\* a cell in force at attained age 120 whose projection goes on into the
\* next policy year with lives remaining
C16_Witness ==
    \E i \in Rows :
        /\ i + 1 \in Rows
        /\ result[i].attained_age = 120
        /\ result[i].lives > 0
        /\ result[i + 1].attained_age = 121
        /\ result[i + 1].final_mortality = Rate(1, 12)

\* C16 as stated: in every emitted row, attained_age does not exceed 120.
C16_AsStated ==
    \A i \in Rows : result[i].attained_age <= 120

\* the rows whose end-of-month lives are at or below the stopping threshold
ExhaustedRows == { i \in Rows : result[i].lives <= LivesEps }

\* C17: project_policy terminates, and the rows it emits are those of the
\* consecutive projection months 1..n, where n is the smaller of
\* projection_months and the first month whose end-of-month lives are at or
\* below the threshold (that month's row is emitted); an account value of 0
\* does not end the loop.
C17_TerminatesWithConsecutiveRows ==
    /\ <>(pc = "done")
    /\ [](/\ \A i \in Rows : result[i].projection_month = i
          /\ Len(result) <= config.projection_months
          /\ \A i \in ExhaustedRows : i = Len(result)
          /\ pc = "done" =>
                 Len(result) = IF ExhaustedRows = {} THEN config.projection_months
                               ELSE CHOOSE i \in ExhaustedRows :
                                        \A j \in ExhaustedRows : i <= j)

\* a finished projection that stopped before the horizon because the lives
\* ran out, with the account value at 0 in rows before the last
C17_Witness ==
    /\ pc = "done"
    /\ Len(result) >= 3
    /\ Len(result) < config.projection_months
    /\ result[Len(result)].lives <= LivesEps
    /\ result[1].eop_av = 0
    /\ result[1].lives > LivesEps

\* (1 - q_mort)(1 - q_lapse)(1 - q_pwd) of row i
BbPersistencyOfRow(i) ==
    Mul(Mul(One - result[i].final_mortality, One - result[i].final_lapse_rate),
        One - result[i].non_systematic_pwd_rate)

\* the benefit base carried out of a month before activation: persisted, and
\* rolled up at month 12 of a policy year inside the surrender-charge period
CarriedOutBeforeActivation(i) ==
    LET persisted == Mul(result[i].bop_benefit_base, BbPersistencyOfRow(i))
        py == result[i].policy_year
    IN  IF result[i].month_in_policy_year = 12 /\ py <= policy.sc_period
        THEN Mul(persisted,
                 Div(One + glwb_bonus_rate + glwb_rollup_rate * Min(py, 10),
                     One + glwb_bonus_rate + glwb_rollup_rate * Min(py - 1, 10)))
        ELSE persisted

\* C18: the BOP benefit base of the activation month A is the benefit base
\* carried out of month A - 1, and from month A onwards the BOP benefit base
\* is non-increasing: each month multiplies it by
\* (1 - q_mort)(1 - q_lapse)(1 - q_pwd) only, with no rollup factor and no
\* reduction by the systematic withdrawal.
C18_BenefitBaseAfterActivation ==
    /\ ActiveRows # {} /\ FirstActiveRow >= 2 =>
           result[FirstActiveRow].bop_benefit_base
               = CarriedOutBeforeActivation(FirstActiveRow - 1)
    /\ \A i \in ActiveRows :
           i + 1 \in Rows =>
               /\ result[i + 1].bop_benefit_base
                      = Mul(result[i].bop_benefit_base, BbPersistencyOfRow(i))
               /\ result[i + 1].bop_benefit_base <= result[i].bop_benefit_base

\* income activated after a month whose rollup raised the benefit base, then
\* active through month 12 of a policy year inside the surrender-charge
\* period, with withdrawals taken and the benefit base lower in the next month
C18_Witness ==
    /\ ActiveRows # {}
    /\ FirstActiveRow >= 2
    /\ result[FirstActiveRow - 1].month_in_policy_year = 12
    /\ result[FirstActiveRow].bop_benefit_base
           > result[FirstActiveRow - 1].bop_benefit_base
    /\ \E i \in ActiveRows :
           /\ i + 1 \in Rows
           /\ result[i].month_in_policy_year = 12
           /\ result[i].policy_year <= policy.sc_period
           /\ result[i].systematic_withdrawal > 0
           /\ result[i + 1].bop_benefit_base < result[i].bop_benefit_base
           /\ result[i + 1].bop_benefit_base > 0

(***************************************************************************)
(* Properties of the assumption tables                                     *)
(***************************************************************************)

\* the rate of the band of the table that contains the age, and for an age
\* outside every band the rate of the band with the highest ages
RateOfBand(tbl, age) ==
    LET bands == PayoutBands(tbl)
        hit == { b \in bands : age >= b[1] /\ age <= b[2] }
        top == CHOOSE b \in bands : \A c \in bands : b[2] >= c[2]
    IN  Rate((IF hit # {} THEN CHOOSE b \in hit : TRUE ELSE top)[3], 1000)

\* C19: get_single_life(age) is the rate of the age band that contains age,
\* and for an age outside every band of the table in use the rate of that
\* table's highest age band.  Read off the monthly income a full solve
\* stores with the optimal activation month.
C19_PayoutFactorOfBand ==
    /\ last_solve # None
    /\ calculator.config.use_caching
    /\ unwrap(last_solve).activation # U32MAX
    => CallEntry.monthly_income_amount
           = Mul(starting_benefit_base(CallPolicy),
                 RateOfBand(calculator.assumptions.payout,
                            attained_age(CallPolicy, unwrap(last_solve).activation)))
                 \div 12

\* C20: for a non-qualified contract with income not activated,
\* annual_pwd_rate in policy year 1 is the base free-withdrawal percentage
\* times the year-1 utilisation (0.05 x 0.10 = 0.005), within 0.001.
C20_FirstYearWithdrawalRate ==
    \A i \in Rows :
        /\ policy.qual_status = "N"
        /\ ~result[i].glwb_activated
        /\ result[i].policy_year = 1
        => Abs(annual_pwd_rate(result[i].policy_year, result[i].attained_age,
                               policy.qual_status, result[i].glwb_activated,
                               free_withdrawal_pct)
               - Mul(free_withdrawal_pct, free_util_get_rate(1)))
           < Rate(1, 1000)

(***************************************************************************)
(* Properties of the block run                                             *)
(***************************************************************************)

\* the cells' rows added one cell after the other in the given order
RECURSIVE SumInOrder(_, _)
SumInOrder(order, k) ==
    IF k = 0 THEN [ m \in 1..BlkMonths |-> 0 ]
    ELSE add_rows(SumInOrder(order, k - 1), policies[order[k]].cashflows, 1)

PolicyOrder == [ i \in 1..Len(policies) |-> i ]

ReverseOrder == [ i \in 1..Len(policies) |-> Len(policies) + 1 - i ]

\* C21: whatever order the workers finish in, the aggregated net-cashflow
\* vector of a block run is the sum of the cells' rows taken in policy order,
\* month by month: it is a function of the inputs alone.
C21_AggregateInPolicyOrder ==
    blk_pc = "done" => detailed_cashflows = SumInOrder(PolicyOrder, Len(policies))

\* a finished run whose workers finished out of policy order, on a block
\* whose sum depends on the order of the additions
C21_Witness ==
    /\ blk_pc = "done"
    /\ overtaken
    /\ SumInOrder(ReverseOrder, Len(policies)) # SumInOrder(PolicyOrder, Len(policies))

(***************************************************************************)
(* The ITM of the lapse model                                              *)
(***************************************************************************)

\* BB / AV of the row before row i, or of the starting balances for row 1
LaggedItm(i) ==
    LET av == IF i = 1 THEN starting_av(policy) ELSE result[i - 1].bop_av
        bb == IF i = 1 THEN starting_benefit_base(policy)
              ELSE result[i - 1].bop_benefit_base
    IN  IF av <= 0 THEN One ELSE Div(bb, av)

\* the lapse rate of row i for a given ITM
LapseRateAt(i, itm) ==
    LET r == result[i]
    IN  IF r.bop_av <= 0 THEN 0
        ELSE IF config.fixed_lapse_rate # None
        THEN (IF i = 1 THEN 0
              ELSE to_monthly(unwrap(config.fixed_lapse_rate), Rate(1, 12)))
        ELSE monthly_lapse_rate_with_skew(assumptions.lapse, i, r.policy_year,
                                          r.month_in_policy_year, r.glwb_activated,
                                          itm, policy.sc_period)

\* C22: the lapse model of projection month n+1 is fed BOP_BB[n] / BOP_AV[n]
\* as recorded in row n (1.0 when BOP_AV[n] <= 0), and in projection month 1
\* starting BB / starting AV: both the dynamic component and the lapse rate
\* of every row are those of that lagged ITM.
C22_LapseUsesLaggedItm ==
    \A i \in Rows :
        /\ result[i].dynamic_lapse_component
               = dynamic_component(LaggedItm(i), result[i].glwb_activated)
        /\ result[i].final_lapse_rate = LapseRateAt(i, LaggedItm(i))

\* month 13 follows a rollup: its own BB / AV is not the ITM of row 12, and
\* the two give different dynamic components
C22_Witness ==
    /\ Len(result) >= 13
    /\ result[12].bop_av > 0
    /\ result[13].bop_av > 0
    /\ result[13].bop_benefit_base > result[12].bop_benefit_base
    /\ dynamic_component(Div(result[13].bop_benefit_base, result[13].bop_av),
                         result[13].glwb_activated)
           # result[13].dynamic_lapse_component

(***************************************************************************)
(* The rollup of the benefit base                                          *)
(***************************************************************************)

\* row i closes a policy year inside the surrender-charge period with income
\* not activated
RollupDue(i) ==
    /\ ~result[i].glwb_activated
    /\ result[i].month_in_policy_year = 12
    /\ result[i].policy_year <= policy.sc_period

\* (1 + bonus + rollup x min(py, 10)) / (1 + bonus + rollup x min(py - 1, 10))
RollupFactorOfYear(py) ==
    Div(One + glwb_bonus_rate + glwb_rollup_rate * Min(py, 10),
        One + glwb_bonus_rate + glwb_rollup_rate * Min(py - 1, 10))

\* C23: at the end of a month the persisted benefit base is multiplied by
\* the rollup factor of the policy year exactly when income is not
\* activated, month_in_policy_year = 12 and policy_year <= sc_period; in
\* every other month it is carried forward with no rollup. In policy year 5
\* the factor is 1.8 / 1.7.
C23_RollupAtYearEnd ==
    \A i \in Rows :
        i + 1 \in Rows =>
            LET persisted == Mul(result[i].bop_benefit_base, BbPersistencyOfRow(i))
            IN  /\ result[i + 1].bop_benefit_base
                       = IF RollupDue(i)
                         THEN Mul(persisted, RollupFactorOfYear(result[i].policy_year))
                         ELSE persisted
                /\ RollupDue(i) /\ result[i].policy_year = 5 =>
                       result[i + 1].bop_benefit_base
                           = Mul(persisted, Div(Rate(18, 10), Rate(17, 10)))

\* a benefit base rolled up at the end of policy year 5, after months of the
\* same year in which it only fell
C23_Witness ==
    \E i \in Rows :
        /\ i >= 2
        /\ i + 1 \in Rows
        /\ RollupDue(i)
        /\ result[i].policy_year = 5
        /\ result[i].bop_benefit_base < result[i - 1].bop_benefit_base
        /\ result[i + 1].bop_benefit_base > result[i].bop_benefit_base

(***************************************************************************)
(* Lapse with the account value exhausted                                  *)
(***************************************************************************)

\* lives_persistency at the start of row i
LivesPersistencyBefore(i) == IF i = 1 THEN One ELSE result[i - 1].lives_persistency

\* C24: in any month whose BOP AV is <= 0 the final lapse rate is 0,
\* whatever the lapse model or a configured fixed_lapse_rate would give, so
\* in those months the lives persistency is multiplied by (1 - q_mort) only.
C24_NoLapseWithoutAccountValue ==
    \A i \in Rows :
        result[i].bop_av <= 0 =>
            /\ result[i].final_lapse_rate = 0
            /\ result[i].lives_persistency
                   = Mul(LivesPersistencyBefore(i), One - result[i].final_mortality)

\* a fixed lapse rate is configured, the account value ran out during the
\* projection after a month with lapses, and lives remain in the month after
C24_Witness ==
    /\ config.fixed_lapse_rate # None
    /\ \E i \in Rows :
           /\ i >= 3
           /\ result[i - 1].bop_av > 0
           /\ result[i - 1].final_lapse_rate > 0
           /\ result[i].bop_av <= 0
           /\ result[i].final_mortality > 0
           /\ result[i].lives > LivesEps
           /\ to_monthly(unwrap(config.fixed_lapse_rate), Rate(1, 12)) > 0

(***************************************************************************)
(* The IndexedAnnual crediting approach                                    *)
(***************************************************************************)

MaxScPeriod == 12

\* the weight of a month as the claim gives it
SkewWeight(py, mipy, sc_period) ==
    IF py # sc_period + 1 THEN Rate(1, 12)
    ELSE IF mipy = 1 THEN Rate(4, 10)
    ELSE IF mipy = 2 THEN Rate(3, 10)
    ELSE IF mipy = 3 THEN Rate(2, 10)
    ELSE Rate(1, 10) \div 9

RECURSIVE SkewSum(_, _, _)
SkewSum(py, sc_period, months) ==
    IF months = 0 THEN 0
    ELSE SkewSum(py, sc_period, months - 1) + shock_year_skew(py, months, sc_period)

\* the two copies of the table agree with the claim for every surrender-
\* charge period, and the twelve weights of the shock year sum to 1 (each of
\* the twelve is rounded down to the grid)
SkewTable ==
    \A sc_period \in 0..MaxScPeriod :
        /\ \A py \in 1..(MaxScPeriod + 2), mipy \in 1..12 :
               /\ shock_year_skew(py, mipy, sc_period) = SkewWeight(py, mipy, sc_period)
               /\ get_skew(py, mipy, sc_period) = shock_year_skew(py, mipy, sc_period)
        /\ SkewSum(sc_period + 1, sc_period, 12) <= One
        /\ SkewSum(sc_period + 1, sc_period, 12) > One - 12

RiderRateOfRow(r) ==
    IF r.bop_av > 0 THEN (r.rider_charge_rate * r.bop_benefit_base) \div r.bop_av ELSE 0

SumOfRatesOfRow(r) ==
    r.final_mortality + r.final_lapse_rate + r.non_systematic_pwd_rate
        + RiderRateOfRow(r)

\* pre_decrement_av x (1 - (1 - q_mort)(1 - q_lapse)(1 - q_pwd)(1 - rider))
DecrementPoolOfRow(r) ==
    Mul(r.pre_decrement_av,
        One - Mul(Mul(Mul(One - r.final_mortality, One - r.final_lapse_rate),
                      One - r.non_systematic_pwd_rate),
                  One - RiderRateOfRow(r)))

AllocatedOfRow(r) ==
    r.mortality_dec + r.lapse_dec + r.surrender_charges_dec + r.rider_charges_dec
        + (r.pwd_dec - r.systematic_withdrawal)

\* whole units lost to rounding: each of the four shares and the two parts
\* of the lapse share are rounded down, and so are the two factors that
\* split the lapse share
AllocationSlack(pool) == 8 + 2 * (pool \div Scale)

\* C27: in every month the allocated decrement dollars, mortality + lapse +
\* surrender charges + rider charges + (pwd - systematic withdrawal), add up
\* to the decrement pool (to rounding); lapse_dec + surrender_charges_dec is
\* the whole lapse share; and when all four rates are 0 every share is 0
\* and pwd_dec is the systematic withdrawal.
C27_AllocationAddsUpToPool ==
    \A i \in Rows :
        LET r == result[i]
            pool == DecrementPoolOfRow(r)
            lapse_share == (pool * r.final_lapse_rate) \div SumOfRatesOfRow(r)
        IN  /\ AllocatedOfRow(r) <= pool
            /\ AllocatedOfRow(r) >= pool - AllocationSlack(pool)
            /\ SumOfRatesOfRow(r) > 0 =>
                   /\ r.lapse_dec + r.surrender_charges_dec <= lapse_share
                   /\ r.lapse_dec + r.surrender_charges_dec
                          >= lapse_share - AllocationSlack(lapse_share)
            /\ SumOfRatesOfRow(r) = 0 =>
                   /\ pool = 0
                   /\ r.mortality_dec = 0 /\ r.lapse_dec = 0
                   /\ r.surrender_charges_dec = 0 /\ r.rider_charges_dec = 0
                   /\ r.pwd_dec = r.systematic_withdrawal

\* a month in which all five amounts are positive, the lapse share split
\* between the policyholder and the surrender charge
C27_Witness ==
    \E i \in Rows :
        /\ result[i].mortality_dec > 0
        /\ result[i].lapse_dec > AllocationSlack(DecrementPoolOfRow(result[i]))
        /\ result[i].surrender_charges_dec > AllocationSlack(DecrementPoolOfRow(result[i]))
        /\ result[i].rider_charges_dec > 0
        /\ result[i].pwd_dec > result[i].systematic_withdrawal

(***************************************************************************)
(* The counters of the reserve cache                                       *)
(***************************************************************************)

CounterSum(cache) == cache.cache_hits + cache.cache_misses + cache.revalidations

\* C28: with caching enabled every call of calculate_reserve increments
\* exactly one of cache_hits, cache_misses and revalidations, so their sum is
\* the number of calls since the cache was last cleared; with caching
\* disabled the counters and the entry map never change.
C28_CountersCountCalls ==
    /\ [](calculator # None =>
             IF calculator.config.use_caching
             THEN CounterSum(calculator.cache) = calls
             ELSE /\ CounterSum(calculator.cache) = 0
                  /\ \A id \in PolicyIds : calculator.cache.entries[id] = None)
    /\ [][ calls' = calls + 1 =>
              LET before == calculator.cache
                  after == calculator'.cache
                  steps == << after.cache_hits - before.cache_hits,
                              after.cache_misses - before.cache_misses,
                              after.revalidations - before.revalidations >>
              IN  IF calculator.config.use_caching
                  THEN steps \in { <<1, 0, 0>>, <<0, 1, 0>>, <<0, 0, 1>> }
                  ELSE after = before ]_vars

\* two calls since the cache was created or cleared: a miss, then a hit
C28_Witness ==
    /\ calculator # None
    /\ calculator.config.use_caching
    /\ calls = 2
    /\ calculator.cache.cache_misses = 1
    /\ calculator.cache.cache_hits = 1
    /\ unwrap(last_result).from_cache

(***************************************************************************)
(* Roll-forward and the activation window                                  *)
(***************************************************************************)

C30_AsStated ==
    [][ calls' = calls + 1 /\ last_call # None /\ last_call' = last_call =>
            unwrap(last_result').gross_reserve = unwrap(last_result).gross_reserve ]_vars

\* the cache was cleared after the latest call
ClearedSinceLastCall == last_call # None /\ calls = 0

\* C30: a call of calculate_reserve with the policy and the valuation month
\* of the call before it returns the same gross_reserve when the cache is
\* left in place (the second call is answered by a roll-forward over zero
\* months, by the same roll-forward as the first, or by a re-solve), when it
\* is disabled, and when it was cleared in between provided the first call
\* was a full solve (from_cache = false).
C30_RepeatedCallSameReserve ==
    [][ /\ calls' = calls + 1
        /\ last_call # None
        /\ last_call' = last_call
        /\ ClearedSinceLastCall => ~unwrap(last_result).from_cache
        => unwrap(last_result').gross_reserve = unwrap(last_result).gross_reserve ]_vars

\* the second of two equal calls, answered from the cache by a roll-forward
\* over zero months of an entry whose reserve is above the CSV
C30_Witness ==
    /\ repeated
    /\ calls = 2
    /\ unwrap(last_result).from_cache
    /\ CallEntry.solve_month = CallMonth
    /\ unwrap(last_result).gross_reserve > unwrap(last_result).csv_at_valuation
====
